---- MODULE Spec2Model ----
(***************************************************************************)
(* A model of squaredle/modules' local-ssl-certs workspace: the CertBuilder *)
(* (cert-builder.js) that bootstraps a root CA, an intermediate CA and leaf  *)
(* SSL certificates through an external engine (openssl), and its           *)
(* validateSslCert.                                                         *)
(*                                                                         *)
(* Text is modelled as a sequence of tokens: a token is either one of the   *)
(* characters the code's regular expressions treat specially, or an opaque  *)
(* run of ordinary characters (a hostname, an organisation name).           *)
(***************************************************************************)
EXTENDS Integers, Sequences, FiniteSets, TLC

----------------------------------------------------------------------------
(* Bounds of the model *)

\* Number of top-level API calls (createRootCA, issueSignedCert,
\* issueSslCert) made on one builder in one process run.
MaxCalls == 2

----------------------------------------------------------------------------
(* Names, paths and descriptors *)

\* CertOptions.org (default "Acme").
org == <<"Acme">>

\* sharedConfig.root_distinguished_name.commonName
rootCommonName == org \o <<" Root Dev CA">>

\* sharedConfig.req_distinguished_name.commonName
intermediateName == org \o <<" Intermediate Dev CA">>

\* Hostnames the operator asks certificates for.
A == <<"a.test">>
B == <<"b.test">>
M == <<"missing.test">>

\* node:path join of a directory and `${name}.${ext}`.
join(dir, name, ext) == <<dir, name, ext>>

\* The persistent root CA key path handed to create() (when one is given).
persistentRootCAKeyPath == <<"persist", <<"root-ca">>, "key">>

\* Where a root key would lie if it were kept next to the root certificate.
StoreRootKey == join("certDir", <<"Root Dev CA">>, "key")

\* Mutant: the temporary root key is written into the store directory.
TempRootKey_inStore == StoreRootKey

\* createRootCA's temporary key path: join(tempDir, `$certName.key`).
TempRootKey == join("tempDir", <<"$certName">>, "key")

RootCrt == join("certDir", rootCommonName, "crt")
ReqCsr == join("tempDir", <<"req">>, "csr")
CaSrl == join("tempDir", <<"ca">>, "srl")
SharedConf == join("tempDir", <<"shared">>, "conf")
SslExt == join("tempDir", <<"ssl_extensions">>, "conf")

\* Names issueSignedCert is asked to issue in this model.
CertNames == {intermediateName, A, B}

StoreFiles ==
  {RootCrt, StoreRootKey}
    \cup {join("certDir", n, e) : n \in CertNames, e \in {"key", "crt"}}
TempFiles == {TempRootKey, ReqCsr, CaSrl, SharedConf, SslExt}
Paths == StoreFiles \cup TempFiles \cup {persistentRootCAKeyPath}

\* JS null for a CertInfo, and the CertInfo class (cert-info.js).
NoInfo == [certPath |-> <<>>, keyPath |-> <<>>, password |-> ""]
CertInfo(certPath, keyPath, password) ==
  [certPath |-> certPath, keyPath |-> keyPath, password |-> password]

\* The hostnames argument of issueSignedCert: omitted (null) or a list.
NoHosts == [given |-> FALSE, list |-> <<>>]
Hosts(list) == [given |-> TRUE, list |-> list]

\* Hostname lists the operator passes to issueSslCert.
HostLists == {<<A>>, <<B, A>>}

----------------------------------------------------------------------------
VARIABLES
  pc,          \* position of the process (the awaited step it is at)
  safeMode,    \* CertOptions.safeMode
  persistent,  \* whether #persistentRootCAKeyPath is set
  fs,          \* the filesystem: path -> 0 (absent), 1 (there before the
               \* run), k+1 (written by the k-th logged event of this run)
  rootCAInfo,  \* CertBuilder.#rootCAInfo
  newCAs,      \* CertBuilder.#newCAs
  tempDir,     \* CertBuilder.#tempDir is set
  handler,     \* the process "exit" handler is registered
  calls,       \* number of top-level API calls made
  cur,         \* frame of the running createRootCA / issueSignedCert
  ssl,         \* frame of the running issueSslCert
  log,         \* history: confirmations asked and engine invocations issued
  exitCode,    \* process exit status (-1 while running)
  report,      \* the "Install new CA certs" list printed at exit
  nextOp,      \* id of the next createRootCA / issueSignedCert invocation
  rets,        \* values the top-level calls returned
  tempExists,  \* the ephemeral workspace directory is on disk
  snap,        \* history: the store as the running top-level call found it
  \* validateSslCert
  vpc,         \* position of validateSslCert (the engine invocation awaited)
  now,         \* the clock, in days
  ticks,       \* days elapsed since validateSslCert was called
  vstart,      \* the clock when validateSslCert was called
  vcert,       \* the certificate file at certInfo.certPath
  vkey,        \* the private key file at certInfo.keyPath
  vfmt,        \* how the engine build prints a subject line
  vhosts,      \* the hostnames argument
  vlog,        \* history: the engine invocations issued, in order
  vout,        \* stdout captured from the subject invocation
  verr,        \* the error validateSslCert rejected with
  vwarn        \* the near-expiry warning was printed

VARIABLES
  x509,        \* CertInfo.#x509 of each descriptor: "null", "empty" ({}) or
               \* "text" (what the engine printed)
  hydrate,     \* each descriptor's #hydrate engine process: "idle",
               \* "running", "ok" (exited 0) or "failed"
  spawned,     \* engine invocations made by #hydrate, per descriptor
  dcalls       \* the getDetails calls made so far, in call order

dvars == <<x509, hydrate, spawned, dcalls>>

VARIABLES
  tmp,         \* CertBuilder.#tempDir as the coroutines competing for it see
               \* it: 0 (null) or the number of the directory it names
  mkdtemps,    \* directories fsPromises.mkdtemp has created
  reqs         \* the #getTempDir / #getConfFile requests: create's own
               \* (request 0) and those of the operations called later

tvars == <<tmp, mkdtemps, reqs>>

bvars == <<pc, safeMode, persistent, fs, rootCAInfo, newCAs, tempDir, handler,
           calls, cur, ssl, log, exitCode, report, nextOp, rets, tempExists,
           snap>>

vvars == <<vpc, now, ticks, vstart, vcert, vkey, vfmt, vhosts, vlog, vout,
           verr, vwarn>>

VARIABLES
  overlap,     \* the caller starts its issueSignedCert calls without awaiting
               \* the previous one (Promise.all) rather than one by one
  icall,       \* each call's arguments: name and hostnames
  ipc,         \* each call's position
  work,        \* content of the workspace files req.csr,
               \* ssl_extensions.conf and shared.conf
  issued,      \* what the engine signed into each call's certificate
  ifatal       \* a catch block called process.exit(1)

pvars == <<overlap, icall, ipc, work, issued, ifatal>>

VARIABLES
  optionsIn,   \* the CertOptionsConfig handed to `new CertOptions`
  options,     \* CertBuilder.options
  sharedConfig, \* CertBuilder.sharedConfig
  built        \* the engine invocations the last operation built

ovars == <<optionsIn, options, sharedConfig, built>>

VARIABLES
  constructing, \* the static CertBuilder.#constructing
  creating,    \* the create() call in progress: its arguments, the engine's
               \* availability, the statement it is at, what it has done
  creates,     \* history: the create() calls that settled
  instances,   \* how each CertBuilder instance held by a caller was got
  handlers,    \* "exit" handlers registered on the process
  storeDir,    \* the store directory (certDir) exists
  workDirs,    \* workspace directories made by mkdtemp
  confFiles,   \* shared.conf files written into a workspace
  news         \* direct `new CertBuilder(...)` calls made

cvars == <<constructing, creating, creates, instances, handlers, storeDir,
           workDirs, confFiles, news>>

VARIABLES
  child,       \* the engine process of the spawnAsync call in progress: how
               \* it was invoked, its state, what it wrote, its exit code
  captured,    \* the executor's closure variables stdout and stderr
  promise,     \* the promise spawnAsync returned: its state and its value
  settled,     \* how many times the promise changed state
  spawns       \* spawnAsync calls made

svars == <<child, captured, promise, settled, spawns>>

\* What the actions on overlapping leaf issuances leave alone.
notPar == <<ovars, cvars, svars>>

\* What the actions on policies leave alone.
notPolicy == <<pvars, cvars, svars>>

\* What the actions on create() and the constructor leave alone.
notCreate == <<pvars, ovars, svars>>

\* What the actions on spawnAsync leave alone.
notSpawn == <<pvars, ovars, cvars>>

xvars == <<pvars, ovars, cvars, svars>>

vars == <<bvars, vvars, dvars, tvars, xvars>>

----------------------------------------------------------------------------
(* Helpers *)

NoFrame ==
  [fn |-> "none", id |-> 0, name |-> <<>>, issuer |-> NoInfo,
   hostnames |-> NoHosts, info |-> NoInfo, ret |-> "top"]
NoSsl == [active |-> FALSE, hostnames |-> <<>>, issuer |-> NoInfo]
NoSnap ==
  [fn |-> "none", hostnames |-> <<>>, fs |-> [p \in Paths |-> 0],
   newCAs |-> <<>>, logLen |-> 0, rootCAInfo |-> NoInfo]

\* createRootCA's privKeyPath.
RootKeyPath == IF persistent THEN persistentRootCAKeyPath ELSE TempRootKey

\* Frame of a createRootCA invocation: certName, privKeyPath, certInfo.
RootFrame(ret) ==
  [fn |-> "createRootCA", id |-> nextOp, name |-> rootCommonName,
   issuer |-> NoInfo, hostnames |-> NoHosts,
   info |-> CertInfo(RootCrt, RootKeyPath, ""), ret |-> ret]

\* Frame of an issueSignedCert(name, issuer, hostnames) invocation:
\* pathPrefix and certInfo.
SignedFrame(name, issuer, hostnames, ret) ==
  [fn |-> "issueSignedCert", id |-> nextOp, name |-> name, issuer |-> issuer,
   hostnames |-> hostnames,
   info |-> CertInfo(join("certDir", name, "crt"),
                     join("certDir", name, "key"), ""),
   ret |-> ret]

\* The input channel of a child process: nothing written, not closed (also
\* stands for an inherited channel the code never touches).
NoStdin == [written |-> <<>>, ended |-> FALSE]

\* childProcess.stdin.write(password); childProcess.stdin.end();
PasswordToStdin(password) == [written |-> <<password>>, ended |-> TRUE]

\* A logged event: a confirmation asked or an engine invocation issued.
Event(t, what, paths, pre, ok) ==
  [t |-> t, what |-> what, op |-> cur.id, fn |-> cur.fn, paths |-> paths,
   pre |-> pre, ok |-> ok, name |-> cur.name, issuer |-> cur.issuer,
   hostnames |-> cur.hostnames, info |-> cur.info, ret |-> cur.ret,
   san |-> <<>>]

\* Content stamp of a file written by the event about to be logged.
Stamp == Len(log) + 2

Write(f, paths, stamp) ==
  [p \in DOMAIN f |-> IF p \in paths THEN stamp ELSE f[p]]

Existing(paths) == {p \in paths : fs[p] # 0}

Whitespace == {" ", "\t", "\n"}

\* String.prototype.trim on a token sequence.
RECURSIVE TrimLeft(_)
TrimLeft(t) ==
  IF t # <<>> /\ Head(t) \in Whitespace THEN TrimLeft(Tail(t)) ELSE t
RECURSIVE TrimRight(_)
TrimRight(t) ==
  IF t # <<>> /\ t[Len(t)] \in Whitespace
    THEN TrimRight(SubSeq(t, 1, Len(t) - 1))
    ELSE t
trim(t) == TrimRight(TrimLeft(t))

\* String.prototype.toLowerCase on a token sequence.
toLowerCase(t) ==
  [k \in DOMAIN t |->
     CASE t[k] = "Y" -> "y"
       [] t[k] = "YES" -> "yes"
       [] t[k] = "N" -> "n"
       [] OTHER -> t[k]]

\* Lines the operator may type at a prompt.
Typed ==
  {<<>>, <<"y">>, <<"yes">>, <<" ", "YES", " ">>, <<"Y">>, <<"n">>, <<"N">>,
   <<"no">>, <<"maybe">>}

\* cli.confirm(question, assumeTrue): the empty answer gives
\* `assumeTrue === true`, any other answer is yes when, trimmed and
\* lower-cased, it is "y" or "yes".
confirm(answer, assumeTrue) ==
  IF answer = <<>> THEN assumeTrue
  ELSE toLowerCase(trim(answer)) \in {<<"y">>, <<"yes">>}

\* What cli.confirm can resolve with.
Answered(assumeTrue) == {confirm(answer, assumeTrue) : answer \in Typed}

----------------------------------------------------------------------------
(* Decisions of the code *)

\* createRootCA: safe mode asks once when any target file exists.
RootNeedsConfirm(existing) == safeMode /\ existing # {}

\* Mutant: only the key file is probed before overwriting.
NeedsOverwriteConfirm_keyOnly(path) ==
  safeMode /\ fs[path] # 0 /\ path[3] = "key"

\* issueSignedCert: safe mode asks for each target file that exists.
NeedsOverwriteConfirm(path) == safeMode /\ fs[path] # 0

\* Mutant: every issuance is taken for a CA certificate.
IsLeaf_never(hostnames) == FALSE

\* issueSignedCert: `hostnames?.length > 0` selects a leaf SSL certificate.
IsLeaf(hostnames) == hostnames.given /\ Len(hostnames.list) > 0

\* issueSignedCert: hostnames.map((hostname) => `DNS:${hostname}`).
subjAltName(hostnames) ==
  [i \in 1..Len(hostnames.list) |-> <<"DNS:">> \o hostnames.list[i]]

\* Mutant: only the certificate file is read.
loadCertKeyPair_certOnly(keyPath, certPath) ==
  IF fs[certPath] # 0 THEN CertInfo(certPath, keyPath, "") ELSE NoInfo

\* #loadCertKeyPair: the descriptor when both files can be read, null when
\* one is missing (ENOENT).
loadCertKeyPair(keyPath, certPath) ==
  IF fs[keyPath] # 0 /\ fs[certPath] # 0
    THEN CertInfo(certPath, keyPath, "")
    ELSE NoInfo

\* #loadRootCA: the value it assigns to #rootCAInfo (null when it returns
\* false).
loadRootCA ==
  IF ~persistent THEN NoInfo
  ELSE loadCertKeyPair(persistentRootCAKeyPath, RootCrt)

\* Mutant: the leaf is named after the last hostname.
LeafName_last(hostnames) == hostnames[Len(hostnames)]

\* issueSslCert names the leaf after hostnames[0].
LeafName(hostnames) == hostnames[1]

\* Root keys are written encrypted under a password (-passout stdin, lines
\* 352-353; the password is random or prompted, lines 326-334), all other
\* keys in the clear (-nodes, line 426).
Encrypted(keyPath) == keyPath \in {persistentRootCAKeyPath, TempRootKey}

\* The engine can sign only with an issuer certificate and key on disk.
EngineCanSign(issuer) ==
  /\ issuer.certPath \in Paths /\ issuer.keyPath \in Paths
  /\ fs[issuer.certPath] # 0 /\ fs[issuer.keyPath] # 0

\* A path as the text of one command-line argument.
PathArg(p) == <<p[1], "/">> \o p[2] \o <<".", p[3]>>

\* CertOptions.keyType (default "rsa").
keyType == <<"rsa">>

\* createRootCA lines 340-369: the argument list of the self-signing
\* invocation.
rootArgs(info) ==
  <<<<"req">>, <<"-x509">>, <<"-new">>, <<"-newkey">>, keyType,
    <<"-keyout">>, PathArg(info.keyPath), <<"-passout">>, <<"stdin">>,
    <<"-out">>, PathArg(info.certPath), <<"-days">>, <<"9999">>,
    <<"-config">>, PathArg(SharedConf),
    <<"-extensions">>, <<"root_cert_extensions">>, <<"-text">>>>

\* issueSignedCert line 438: `/C=US/O=${this.options.org}/CN=${name}`.
subj(o, name) == <<"/C=", "US", "/O=">> \o o \o <<"/CN=">> \o name

\* issueSignedCert lines 418-442: the argument list of the signing-request
\* invocation.
reqArgs(name, info) ==
  <<<<"req">>, <<"-batch">>, <<"-new">>, <<"-newkey">>, keyType,
    <<"-nodes">>, <<"-keyout">>, PathArg(info.keyPath),
    <<"-out">>, PathArg(ReqCsr), <<"-config">>, PathArg(SharedConf),
    <<"-subj">>, subj(org, name),
    <<"-text">>>>

\* Mutant: the issuer password is passed on the command line.
passinArgs_onCommandLine(issuer) ==
  IF issuer.password # ""
    THEN <<<<"-passin">>, <<"pass:", issuer.password>>>>
    ELSE <<>>

\* issueSignedCert lines 502-504: args.push("-passin", "stdin").
passinArgs(issuer) ==
  IF issuer.password # "" THEN <<<<"-passin">>, <<"stdin">>>> ELSE <<>>

\* issueSignedCert lines 458-504: the argument list of the signing
\* invocation.
signArgs(info, issuer, hostnames) ==
  <<<<"x509">>, <<"-req">>, <<"-in">>, PathArg(ReqCsr),
    <<"-CA">>, PathArg(issuer.certPath), <<"-CAkey">>, PathArg(issuer.keyPath),
    <<"-CAserial">>, PathArg(CaSrl), <<"-CAcreateserial">>,
    <<"-extensions">>, <<"cert_extensions">>, <<"-days">>, <<"9999">>,
    <<"-trustout">>, <<"-out">>, PathArg(info.certPath), <<"-text">>,
    <<"-extfile">>,
    PathArg(IF IsLeaf(hostnames) THEN SslExt ELSE SharedConf)>>
  \o passinArgs(issuer)

\* issueSignedCert lines 508-513: the password goes to the input channel
\* when the issuer has one.
signStdin(issuer) ==
  IF issuer.password # "" THEN PasswordToStdin(issuer.password) ELSE NoStdin

\* The argument list and the input channel of a logged engine invocation,
\* as the code builds them from the call's name, certInfo, issuer and
\* hostnames.
ArgsOf(e) ==
  CASE e.what = "selfsign" -> rootArgs(e.info)
    [] e.what = "req" -> reqArgs(e.name, e.info)
    [] e.what = "sign" -> signArgs(e.info, e.issuer, e.hostnames)
StdinOf(e) ==
  CASE e.what = "selfsign" -> PasswordToStdin(e.info.password)
    [] e.what = "req" -> NoStdin
    [] e.what = "sign" -> signStdin(e.issuer)

\* An engine invocation succeeds, fails leaving nothing, or fails leaving
\* its first output file partially written.
Outcomes == {"ok", "fail", "partial"}

\* Arguments of the direct issueSignedCert calls of this model:
\* <<name, issuer, hostnames>>.
DirectCalls ==
  {<<intermediateName, "root", NoHosts>>,
   <<A, "int", Hosts(<<A, B>>)>>,
   <<A, "int", Hosts(<<>>)>>}

\* Descriptors a caller builds for the issuer argument.
IssuerOf(tag) ==
  IF tag = "root"
    THEN CertInfo(RootCrt, RootKeyPath, "pw")
    ELSE CertInfo(join("certDir", intermediateName, "crt"),
                  join("certDir", intermediateName, "key"), "")

----------------------------------------------------------------------------
(* Control transfer *)

\* process.exit(code), or the process dying of an unhandled rejection: the
\* exit handler runs next.
Exit(code) ==
  /\ pc' = "exiting"
  /\ exitCode' = code
  /\ UNCHANGED <<cur, ssl, rets, nextOp>>

\* Mutant: the catch block logs the error and falls through to signing.
reqFailed_fallThrough ==
  /\ pc' = "isc_sign"
  /\ UNCHANGED <<cur, ssl, rets, nextOp, exitCode>>

\* The catch blocks of createRootCA (lines 378-382) and issueSignedCert
\* (lines 450-454 and 515-520): log the error, process.exit(1).
rootFailed == Exit(1)
reqFailed == Exit(1)
signFailed == Exit(1)

\* Mutant: the refusal ends the process with status 0.
createDeclined_exitsZero == Exit(0)

\* issueSslCert lines 552-555 and 560-568: the operator declined "Create one
\* now?", "Aborting.", process.exit(1).
createDeclined == Exit(1)

\* createRootCA / issueSignedCert returns `value` to its caller.
Return(value) ==
  CASE cur.ret = "top" ->
         /\ pc' = "idle"
         /\ cur' = NoFrame
         /\ rets' = Append(rets, [fn |-> cur.fn, value |-> value,
                                  hostnames |-> cur.hostnames.list])
         /\ UNCHANGED <<ssl, nextOp, exitCode>>
    [] cur.ret = "ssl_int_confirm" ->
         \* issueSslCert line 556: back from `await this.createRootCA()`.
         /\ pc' = "ssl_int_confirm"
         /\ cur' = NoFrame
         /\ UNCHANGED <<ssl, rets, nextOp, exitCode>>
    [] cur.ret = "ssl_leaf" ->
         \* issueSslCert lines 569-573: issuer = the intermediate's result,
         \* then issueSignedCert(hostnames[0], issuer, hostnames).
         /\ pc' = "isc_key"
         /\ ssl' = [ssl EXCEPT !.issuer = value]
         /\ cur' = SignedFrame(LeafName(ssl.hostnames), value,
                               Hosts(ssl.hostnames), "ssl_done")
         /\ nextOp' = nextOp + 1
         /\ UNCHANGED <<rets, exitCode>>
    [] cur.ret = "ssl_done" ->
         /\ pc' = "idle"
         /\ cur' = NoFrame
         /\ ssl' = NoSsl
         /\ rets' = Append(rets, [fn |-> "issueSslCert", value |-> value,
                                  hostnames |-> ssl.hostnames])
         /\ UNCHANGED <<nextOp, exitCode>>

\* Mutant: the operator's refusal is ignored and issuance goes on.
Aborting_ignored ==
  /\ pc' = "isc_req"
  /\ UNCHANGED <<cur, ssl, rets, nextOp, exitCode>>

\* issueSignedCert lines 399-402: the operator declined, "Aborting.",
\* return null.
Aborting == Return(NoInfo)

\* The store as a top-level call finds it.
Snapshot(fn, hostnames) ==
  [fn |-> fn, hostnames |-> hostnames, fs |-> fs, newCAs |-> newCAs,
   logLen |-> Len(log), rootCAInfo |-> rootCAInfo]

----------------------------------------------------------------------------
(* Initial state: a process about to call CertBuilder.create on a store    *)
(* directory holding any subset of the root, intermediate and a.test key   *)
(* and certificate files; nothing was issued for b.test before the run.    *)

\* No builder in this process (the validate command).
BuilderOff ==
  /\ pc = "off"
  /\ safeMode = TRUE
  /\ persistent = FALSE
  /\ fs = [p \in Paths |-> 0]
  /\ rootCAInfo = NoInfo
  /\ newCAs = <<>>
  /\ tempDir = FALSE
  /\ tempExists = FALSE
  /\ handler = FALSE
  /\ calls = 0
  /\ cur = NoFrame
  /\ ssl = NoSsl
  /\ log = <<>>
  /\ exitCode = -1
  /\ report = <<>>
  /\ nextOp = 1
  /\ rets = <<>>
  /\ snap = NoSnap

\* A certificate path at which there is no certificate file.
NoCert ==
  [present |-> FALSE, notAfter |-> 0, cn |-> <<>>, san |-> <<>>,
   modulus |-> 0, trusted |-> FALSE]

\* validateSslCert has not rejected.
NoError == [kind |-> "none", cmd |-> "", missing |-> <<>>]

\* No validateSslCert call in this process (the issue command).
ValidatorOff ==
  /\ vpc = "off"
  /\ now = 0
  /\ ticks = 0
  /\ vstart = 0
  /\ vcert = NoCert
  /\ vkey = [valid |-> FALSE, modulus |-> 0]
  /\ vfmt = "oneline"
  /\ vhosts = <<>>
  /\ vlog = <<>>
  /\ vout = <<>>
  /\ verr = NoError
  /\ vwarn = FALSE

\* Requests for the workspace directory made on one builder after create.
MaxRequests == 3

\* A request not made yet.
NoRequest == [site |-> "none", state |-> "new", dir |-> 0]

\* The competing requests are not followed in this process.
TempOff ==
  /\ tmp = 0
  /\ mkdtemps = 0
  /\ reqs = [i \in 0..MaxRequests |-> NoRequest]

\* The descriptors getDetails is called on (the print command makes one per
\* certificate argument).
Descriptors == {"one.crt", "two.crt"}

\* No getDetails call in this process: every descriptor as constructed.
DetailsOff ==
  /\ x509 = [d \in Descriptors |-> "null"]
  /\ hydrate = [d \in Descriptors |-> "idle"]
  /\ spawned = [d \in Descriptors |-> 0]
  /\ dcalls = <<>>

\* issueSignedCert calls made on one builder by one caller.
Issuers == 1..2

\* Nothing in the workspace file, and nothing signed.
NoContent == [by |-> 0, text |-> <<>>]
NoIssued == [request |-> NoContent, dns |-> <<>>]

\* The workspace files as create leaves them: shared.conf written from
\* sharedConfig (line 163), no request and no extension file.
WorkFiles == {"req.csr", "ssl_extensions.conf", "shared.conf"}
WorkAfterCreate ==
  [f \in WorkFiles |->
     IF f = "shared.conf"
       THEN [by |-> 0, text |-> <<"sharedConfig">>]
       ELSE NoContent]

\* The overlapping issueSignedCert calls are not followed in this process.
ParallelOff ==
  /\ overlap = FALSE
  /\ icall = [i \in Issuers |-> [name |-> <<>>, hostnames |-> <<>>]]
  /\ ipc = [i \in Issuers |-> "off"]
  /\ work = WorkAfterCreate
  /\ issued = [i \in Issuers |-> NoIssued]
  /\ ifatal = FALSE

\* A falsy option value: undefined or the empty string.
Falsy == <<>>

\* CertOptions constructor (lines 26-32): each option or its default.
CertOptions(c) ==
  [org |-> IF c.org # Falsy THEN c.org ELSE <<"Acme">>,
   countryName |-> IF c.countryName # Falsy THEN c.countryName ELSE <<"US">>,
   keyType |-> <<"rsa">>,
   keyCipher |-> <<"aes256">>]

\* No CertOptions and no sharedConfig constructed yet.
NoOptions ==
  [org |-> Falsy, countryName |-> Falsy, keyType |-> Falsy,
   keyCipher |-> Falsy]
NoConfig == <<>>

\* The policies are not followed in this process: the default policy, as in
\* the other specifications.
PolicyOff ==
  /\ optionsIn = [org |-> <<"Acme">>, countryName |-> Falsy]
  /\ options = NoOptions
  /\ sharedConfig = NoConfig
  /\ built = <<>>

\* No create() call in progress.
NoCreate ==
  [rootCAKeyPath |-> "none", engine |-> FALSE, at |-> 0, done |-> <<>>,
   pre |-> <<>>]

\* create() and the constructor are not followed statement by statement in
\* this process.
CreateOff ==
  /\ constructing = FALSE
  /\ creating = NoCreate
  /\ creates = <<>>
  /\ instances = <<>>
  /\ handlers = 0
  /\ storeDir = FALSE
  /\ workDirs = 0
  /\ confFiles = 0
  /\ news = 0

\* The processes followed by the other specifications of this module.
\* No engine invocation is followed through spawnAsync.
NoChild == [state |-> "none"]
NoValue == [is |-> "nothing"]
NoPromise == [state |-> "none", value |-> NoValue]

SpawnOff ==
  /\ child = NoChild
  /\ captured = NoValue
  /\ promise = NoPromise
  /\ settled = 0
  /\ spawns = 0

ExtrasOff == ParallelOff /\ PolicyOff /\ CreateOff /\ SpawnOff

BuilderInit ==
  /\ pc = "start"
  /\ safeMode \in BOOLEAN
  /\ persistent \in BOOLEAN
  /\ fs \in [Paths -> {0, 1}]
  /\ \A p \in TempFiles : fs[p] = 0
  /\ \A e \in {"key", "crt"} : fs[join("certDir", B, e)] = 0
  /\ fs[StoreRootKey] = 0
  /\ (~persistent => fs[persistentRootCAKeyPath] = 0)
  /\ rootCAInfo = NoInfo
  /\ newCAs = <<>>
  /\ tempDir = FALSE
  /\ tempExists = FALSE
  /\ handler = FALSE
  /\ calls = 0
  /\ cur = NoFrame
  /\ ssl = NoSsl
  /\ log = <<>>
  /\ exitCode = -1
  /\ report = <<>>
  /\ nextOp = 1
  /\ rets = <<>>
  /\ snap = NoSnap

Init == ValidatorOff /\ DetailsOff /\ TempOff /\ ExtrasOff /\ BuilderInit

----------------------------------------------------------------------------
(* CertBuilder.create *)

create ==
  /\ pc = "start"
  /\ \E available \in BOOLEAN :
       IF ~available
         THEN \* "openssl command not available.": create throws.
              /\ pc' = "exiting"
              /\ exitCode' = 1
              /\ UNCHANGED <<handler, tempDir, tempExists, fs>>
         ELSE /\ handler' = TRUE
              /\ tempDir' = TRUE
              /\ tempExists' = TRUE
              /\ fs' = Write(fs, {SharedConf}, Stamp)
              /\ pc' = "idle"
              /\ UNCHANGED exitCode
  /\ UNCHANGED <<safeMode, persistent, rootCAInfo, newCAs, calls, cur, ssl,
                 log, report, nextOp, rets, snap>>
  /\ UNCHANGED vvars
  /\ UNCHANGED dvars
  /\ UNCHANGED tvars
  /\ UNCHANGED xvars

----------------------------------------------------------------------------
(* Top-level calls *)

CallCreateRootCA ==
  /\ pc = "idle"
  /\ calls < MaxCalls
  /\ calls' = calls + 1
  /\ cur' = RootFrame("top")
  /\ nextOp' = nextOp + 1
  /\ pc' = "root_confirm"
  /\ snap' = Snapshot("createRootCA", <<>>)
  /\ UNCHANGED <<safeMode, persistent, fs, rootCAInfo, newCAs, tempDir,
                 tempExists, handler, ssl, log, exitCode, report, rets>>
  /\ UNCHANGED vvars
  /\ UNCHANGED dvars
  /\ UNCHANGED tvars
  /\ UNCHANGED xvars

CallIssueSignedCert ==
  /\ pc = "idle"
  /\ calls < MaxCalls
  /\ \E d \in DirectCalls :
       /\ cur' = SignedFrame(d[1], IssuerOf(d[2]), d[3], "top")
       /\ snap' = Snapshot("issueSignedCert", d[3].list)
  /\ calls' = calls + 1
  /\ nextOp' = nextOp + 1
  /\ pc' = "isc_key"
  /\ UNCHANGED <<safeMode, persistent, fs, rootCAInfo, newCAs, tempDir,
                 tempExists, handler, ssl, log, exitCode, report, rets>>
  /\ UNCHANGED vvars
  /\ UNCHANGED dvars
  /\ UNCHANGED tvars
  /\ UNCHANGED xvars

CallIssueSslCert ==
  /\ pc = "idle"
  /\ calls < MaxCalls
  /\ \E hostnames \in HostLists :
       /\ ssl' = [active |-> TRUE, hostnames |-> hostnames,
                  issuer |-> NoInfo]
       /\ snap' = Snapshot("issueSslCert", hostnames)
  /\ calls' = calls + 1
  /\ pc' = "ssl_probe"
  /\ UNCHANGED <<safeMode, persistent, fs, rootCAInfo, newCAs, tempDir,
                 tempExists, handler, cur, log, exitCode, report, nextOp,
                 rets>>
  /\ UNCHANGED vvars
  /\ UNCHANGED dvars
  /\ UNCHANGED tvars
  /\ UNCHANGED xvars

----------------------------------------------------------------------------
(* createRootCA *)

\* Lines 294-334: the paths, the safe-mode confirmation, the password.
createRootCA_confirm ==
  /\ pc = "root_confirm"
  /\ LET targets == {cur.info.keyPath, cur.info.certPath}
         existing == Existing(targets)
         proceed == /\ cur' = [cur EXCEPT !.info.password = "pw"]
                    /\ pc' = "root_engine"
                    /\ UNCHANGED <<ssl, rets, nextOp, exitCode>>
     IN IF RootNeedsConfirm(existing)
          THEN \E answer \in Answered(FALSE) :
                 /\ log' = Append(log, Event("confirm", "overwrite",
                                             existing, existing, answer))
                 /\ IF answer THEN proceed ELSE Exit(1)
          ELSE proceed /\ UNCHANGED log
  /\ tempDir' = TRUE
  /\ UNCHANGED <<safeMode, persistent, fs, rootCAInfo, newCAs, tempExists,
                 handler, calls, report, snap>>
  /\ UNCHANGED vvars
  /\ UNCHANGED dvars
  /\ UNCHANGED tvars
  /\ UNCHANGED xvars

\* Lines 336-382: the self-signing engine invocation.
createRootCA_engine ==
  /\ pc = "root_engine"
  /\ \E out \in Outcomes :
       LET targets == {cur.info.keyPath, cur.info.certPath}
           written == CASE out = "ok" -> targets
                        [] out = "partial" -> {cur.info.keyPath}
                        [] out = "fail" -> {}
       IN /\ log' = Append(log, Event("engine", "selfsign", targets,
                                      Existing(targets), out = "ok"))
          /\ fs' = Write(fs, written, Stamp)
          /\ IF out = "ok"
               THEN /\ rootCAInfo' = cur.info
                    /\ newCAs' = Append(newCAs, cur.info.certPath)
                    /\ Return(NoInfo)
               ELSE /\ rootFailed
                    /\ UNCHANGED <<rootCAInfo, newCAs>>
  /\ UNCHANGED <<safeMode, persistent, tempDir, tempExists, handler, calls,
                 report, snap>>
  /\ UNCHANGED vvars
  /\ UNCHANGED dvars
  /\ UNCHANGED tvars
  /\ UNCHANGED xvars

----------------------------------------------------------------------------
(* issueSignedCert *)

\* Lines 396-405, first iteration: the key file.
issueSignedCert_confirmKey ==
  /\ pc = "isc_key"
  /\ LET path == cur.info.keyPath
     IN IF NeedsOverwriteConfirm(path)
          THEN \E answer \in Answered(FALSE) :
                 /\ log' = Append(log, Event("confirm", "overwrite",
                                             {path}, {path}, answer))
                 /\ IF answer
                      THEN /\ pc' = "isc_crt"
                           /\ UNCHANGED <<cur, ssl, rets, nextOp, exitCode>>
                      ELSE Aborting
          ELSE /\ pc' = "isc_crt"
               /\ UNCHANGED <<log, cur, ssl, rets, nextOp, exitCode>>
  /\ UNCHANGED <<safeMode, persistent, fs, rootCAInfo, newCAs, tempDir,
                 tempExists, handler, calls, report, snap>>
  /\ UNCHANGED vvars
  /\ UNCHANGED dvars
  /\ UNCHANGED tvars
  /\ UNCHANGED xvars

\* Lines 396-415, second iteration: the certificate file; then the
\* subjAltName / #newCAs decision and #getTempDir.
issueSignedCert_confirmCrt ==
  /\ pc = "isc_crt"
  /\ LET path == cur.info.certPath
         proceed ==
           /\ newCAs' = IF IsLeaf(cur.hostnames)
                          THEN newCAs
                          ELSE Append(newCAs, cur.info.certPath)
           /\ tempDir' = TRUE
           /\ pc' = "isc_req"
           /\ UNCHANGED <<cur, ssl, rets, nextOp, exitCode>>
     IN IF NeedsOverwriteConfirm(path)
          THEN \E answer \in Answered(FALSE) :
                 /\ log' = Append(log, Event("confirm", "overwrite",
                                             {path}, {path}, answer))
                 /\ IF answer
                      THEN proceed
                      ELSE Aborting /\ UNCHANGED <<newCAs, tempDir>>
          ELSE proceed /\ UNCHANGED log
  /\ UNCHANGED <<safeMode, persistent, fs, rootCAInfo, tempExists, handler,
                 calls, report, snap>>
  /\ UNCHANGED vvars
  /\ UNCHANGED dvars
  /\ UNCHANGED tvars
  /\ UNCHANGED xvars

\* Lines 417-456: the signing-request engine invocation, then the log line
\* that reads issuer.certPath.
issueSignedCert_req ==
  /\ pc = "isc_req"
  /\ \E out \in Outcomes :
       LET targets == {cur.info.keyPath, ReqCsr}
           written == CASE out = "ok" -> targets
                        [] out = "partial" -> {cur.info.keyPath}
                        [] out = "fail" -> {}
       IN /\ log' = Append(log, Event("engine", "req", targets,
                                      Existing(targets), out = "ok"))
          /\ fs' = Write(fs, written, Stamp)
          /\ IF out = "ok"
               THEN IF cur.issuer = NoInfo
                      THEN \* TypeError reading issuer.certPath: the call
                           \* rejects and nothing handles the rejection.
                           Exit(1)
                      ELSE /\ pc' = "isc_sign"
                           /\ UNCHANGED <<cur, ssl, rets, nextOp, exitCode>>
               ELSE reqFailed
  /\ UNCHANGED <<safeMode, persistent, rootCAInfo, newCAs, tempDir,
                 tempExists, handler, calls, report, snap>>
  /\ UNCHANGED vvars
  /\ UNCHANGED dvars
  /\ UNCHANGED tvars
  /\ UNCHANGED xvars

\* Lines 457-521: the extension file and the signing engine invocation.
issueSignedCert_sign ==
  /\ pc = "isc_sign"
  /\ \E out \in Outcomes :
       /\ (out = "ok" => EngineCanSign(cur.issuer))
       /\ LET targets == {cur.info.certPath, CaSrl}
              extfile == IF IsLeaf(cur.hostnames) THEN {SslExt} ELSE {}
              written == CASE out = "ok" -> targets
                           [] out = "partial" -> {cur.info.certPath}
                           [] out = "fail" -> {}
          IN /\ log' = Append(log,
                              [Event("engine", "sign", targets,
                                     Existing(targets), out = "ok")
                                 EXCEPT !.san = IF IsLeaf(cur.hostnames)
                                                  THEN subjAltName(cur.hostnames)
                                                  ELSE <<>>])
             /\ fs' = Write(fs, written \cup extfile, Stamp)
             /\ IF out = "ok" THEN Return(cur.info) ELSE signFailed
  /\ UNCHANGED <<safeMode, persistent, rootCAInfo, newCAs, tempDir,
                 tempExists, handler, calls, report, snap>>
  /\ UNCHANGED vvars
  /\ UNCHANGED dvars
  /\ UNCHANGED tvars
  /\ UNCHANGED xvars

----------------------------------------------------------------------------
(* issueSslCert *)

\* Lines 530-545: probe for the intermediate, then for the root CA.
issueSslCert_probe ==
  /\ pc = "ssl_probe"
  /\ LET issuer == loadCertKeyPair(join("certDir", intermediateName, "key"),
                                   join("certDir", intermediateName, "crt"))
     IN IF issuer # NoInfo
          THEN \* Line 573: straight to the leaf.
               /\ ssl' = [ssl EXCEPT !.issuer = issuer]
               /\ cur' = SignedFrame(LeafName(ssl.hostnames), issuer,
                                     Hosts(ssl.hostnames), "ssl_done")
               /\ nextOp' = nextOp + 1
               /\ pc' = "isc_key"
               /\ UNCHANGED rootCAInfo
          ELSE /\ IF rootCAInfo # NoInfo
                    THEN /\ pc' = "ssl_int_confirm"
                         /\ UNCHANGED rootCAInfo
                    ELSE /\ rootCAInfo' = loadRootCA
                         /\ pc' = IF loadRootCA # NoInfo
                                    THEN "ssl_int_confirm"
                                    ELSE "ssl_root_confirm"
               /\ UNCHANGED <<ssl, cur, nextOp>>
  /\ UNCHANGED <<safeMode, persistent, fs, newCAs, tempDir, tempExists,
                 handler, calls, log, exitCode, report, rets, snap>>
  /\ UNCHANGED vvars
  /\ UNCHANGED dvars
  /\ UNCHANGED tvars
  /\ UNCHANGED xvars

\* Lines 545-556: "Create one now?" for the root CA.
issueSslCert_confirmRoot ==
  /\ pc = "ssl_root_confirm"
  /\ \E answer \in Answered(TRUE) :
       /\ log' = Append(log, [Event("confirm", "create", {RootCrt}, {}, answer)
                                EXCEPT !.fn = "issueSslCert", !.op = 0])
       /\ IF answer
            THEN /\ cur' = RootFrame("ssl_int_confirm")
                 /\ nextOp' = nextOp + 1
                 /\ pc' = "root_confirm"
                 /\ UNCHANGED <<ssl, rets, exitCode>>
            ELSE createDeclined
  /\ UNCHANGED <<safeMode, persistent, fs, rootCAInfo, newCAs, tempDir,
                 tempExists, handler, calls, report, snap>>
  /\ UNCHANGED vvars
  /\ UNCHANGED dvars
  /\ UNCHANGED tvars
  /\ UNCHANGED xvars

\* Lines 559-569: "Intermediate CA not found. Create one now?".
issueSslCert_confirmInt ==
  /\ pc = "ssl_int_confirm"
  /\ \E answer \in Answered(TRUE) :
       /\ log' = Append(log, [Event("confirm", "create",
                                    {join("certDir", intermediateName, "crt")},
                                    {}, answer)
                                EXCEPT !.fn = "issueSslCert", !.op = 0])
       /\ IF answer
            THEN /\ cur' = SignedFrame(intermediateName, rootCAInfo, NoHosts,
                                       "ssl_leaf")
                 /\ nextOp' = nextOp + 1
                 /\ pc' = "isc_key"
                 /\ UNCHANGED <<ssl, rets, exitCode>>
            ELSE createDeclined
  /\ UNCHANGED <<safeMode, persistent, fs, rootCAInfo, newCAs, tempDir,
                 tempExists, handler, calls, report, snap>>
  /\ UNCHANGED vvars
  /\ UNCHANGED dvars
  /\ UNCHANGED tvars
  /\ UNCHANGED xvars

----------------------------------------------------------------------------
(* Process exit *)

\* The event loop runs dry after the last top-level call returned.
finish ==
  /\ pc = "idle"
  /\ pc' = "exiting"
  /\ exitCode' = 0
  /\ UNCHANGED <<safeMode, persistent, fs, rootCAInfo, newCAs, tempDir,
                 tempExists, handler, calls, cur, ssl, log, report, nextOp,
                 rets, snap>>
  /\ UNCHANGED vvars
  /\ UNCHANGED dvars
  /\ UNCHANGED tvars
  /\ UNCHANGED xvars

\* Mutant: the persistent root key path is not looked at.
RootKeyAtStake_anyRoot == rootCAInfo # NoInfo

\* Line 680: !this.#persistentRootCAKeyPath && !!this.#rootCAInfo?.keyPath.
RootKeyAtStake == ~persistent /\ rootCAInfo # NoInfo

\* The "exit" handler: #cleanUp (lines 673-697).
cleanUp ==
  /\ pc = "exiting"
  /\ pc' = "exited"
  /\ IF handler /\ tempDir
       THEN \E removed \in BOOLEAN :
              IF removed
                THEN /\ fs' = Write(fs, TempFiles, 0)
                     /\ tempExists' = FALSE
                     /\ report' = newCAs
                     /\ UNCHANGED exitCode
                ELSE /\ UNCHANGED <<fs, tempExists>>
                     /\ IF RootKeyAtStake
                          THEN exitCode' = 1 /\ UNCHANGED report
                          ELSE report' = newCAs /\ UNCHANGED exitCode
       ELSE /\ report' = IF handler THEN newCAs ELSE <<>>
            /\ UNCHANGED <<fs, tempExists, exitCode>>
  /\ UNCHANGED <<safeMode, persistent, rootCAInfo, newCAs, tempDir, handler,
                 calls, cur, ssl, log, nextOp, rets, snap>>
  /\ UNCHANGED vvars
  /\ UNCHANGED dvars
  /\ UNCHANGED tvars
  /\ UNCHANGED xvars

----------------------------------------------------------------------------
Next ==
  \/ create
  \/ CallCreateRootCA
  \/ CallIssueSignedCert
  \/ CallIssueSslCert
  \/ createRootCA_confirm
  \/ createRootCA_engine
  \/ issueSignedCert_confirmKey
  \/ issueSignedCert_confirmCrt
  \/ issueSignedCert_req
  \/ issueSignedCert_sign
  \/ issueSslCert_probe
  \/ issueSslCert_confirmRoot
  \/ issueSslCert_confirmInt
  \/ finish
  \/ cleanUp

Spec == Init /\ [][Next]_vars

----------------------------------------------------------------------------
(* validateSslCert: bounds and inputs *)

\* Days that may pass while validateSslCert awaits the engine.
MaxTicks == 1

\* The day validateSslCert is called on.
StartDay == 2

\* "14 days" of the near-expiry warning, in days.
WarnWindow == 14

\* Not-after dates of the certificates validated, as offsets from StartDay.
NotAfterOffsets == {-1, 0, 1, 2, 10, 14, 20}
\* "-days 9999": the validity the builder asks the engine for.
CertDays == 9999

Days ==
  (StartDay - 1)..(StartDay + 20 + MaxTicks) \cup {StartDay + CertDays}

\* Certificates validated: a missing file, or a certificate with or without
\* a Common Name and with zero or more DNS subjectAltName entries.
Certs ==
  {NoCert} \cup
  [present : {TRUE}, notAfter : {StartDay + d : d \in NotAfterOffsets},
   cn : {<<>>, A, B}, san : {<<>>, <<B>>, <<A, B>>}, modulus : {1},
   trusted : BOOLEAN]
Keys == [valid : BOOLEAN, modulus : {1, 2}]
Requests == {<<A>>, <<A, B>>, <<A, M>>, <<M, B, M>>}

----------------------------------------------------------------------------
(* Text the engine prints, and the code's parsing of it *)

\* First index from i on whose token is not whitespace (\s*).
RECURSIVE SkipWs(_, _)
SkipWs(t, i) ==
  IF i <= Len(t) /\ t[i] \in Whitespace THEN SkipWs(t, i + 1) ELSE i

\* End (exclusive) of the longest run from i of tokens outside `stop`
\* ([^...]+).
RECURSIVE RunEnd(_, _, _)
RunEnd(t, i, stop) ==
  IF i <= Len(t) /\ t[i] \notin stop THEN RunEnd(t, i + 1, stop) ELSE i

\* `openssl x509 -noout -subject`: the subject line, in the "oneline" form of
\* current engine builds or the "compat" form of older ones.
SubjectText(cert, fmt) ==
  IF fmt = "oneline"
    THEN <<"subject=", "C", " ", "=", " ", "US", ",", " ",
           "O", " ", "=", " ">> \o org
         \o (IF cert.cn = <<>> THEN <<>>
             ELSE <<",", " ", "CN", " ", "=", " ">> \o cert.cn)
         \o <<"\n">>
    ELSE <<"subject=", " ", "/", "C", "=", "US", "/", "O", "=">> \o org
         \o (IF cert.cn = <<>> THEN <<>> ELSE <<"/", "CN", "=">> \o cert.cn)
         \o <<"\n">>

\* `openssl x509 -noout -ext subjectAltName`.
RECURSIVE DnsList(_)
DnsList(san) ==
  IF san = <<>> THEN <<>>
  ELSE <<"DNS:">> \o Head(san)
       \o (IF Len(san) > 1 THEN <<",", " ">> ELSE <<>>)
       \o DnsList(Tail(san))
AltNamesText(cert) ==
  IF cert.san = <<>> THEN <<>>
  ELSE <<"X509v3 Subject Alternative Name:", " ", "\n", " ", " ">>
       \o DnsList(cert.san) \o <<"\n">>

\* `openssl x509 -enddate -noout`.
EnddateText(cert) == <<"notAfter=", ToString(cert.notAfter), "\n">>

\* `openssl x509 -noout -modulus` and `openssl rsa -noout -modulus`.
ModulusText(m) == <<"Modulus=", ToString(m), "\n">>

\* stdout.match(/subject=.*CN\s*=\s*([^/,\n]+)/): the capture of the match
\* that starts at the "CN" token k, or <<>> when there is none.
CNCaptureAt(t, k) ==
  LET e == SkipWs(t, k + 1)
  IN IF ~(e <= Len(t) /\ t[e] = "=") THEN <<>>
     ELSE LET j == SkipWs(t, e + 1)
              starts == {c \in (e + 1)..j :
                           c <= Len(t) /\ t[c] \notin {"/", ",", "\n"}}
          IN IF starts = {} THEN <<>>
             ELSE LET c == CHOOSE x \in starts : \A y \in starts : y <= x
                  IN SubSeq(t, c, RunEnd(t, c, {"/", ",", "\n"}) - 1)

\* The whole match: "subject=" at s, then the greedy `.*` up to the last
\* "CN" on the same line from which the rest matches.
cnMatch(t) ==
  LET ok == {<<s, k>> \in (DOMAIN t) \X (DOMAIN t) :
               /\ t[s] = "subject=" /\ k > s /\ t[k] = "CN"
               /\ \A i \in (s + 1)..(k - 1) : t[i] # "\n"
               /\ CNCaptureAt(t, k) # <<>>}
  IN IF ok = {} THEN <<>>
     ELSE LET s == CHOOSE x \in {m[1] : m \in ok} :
                     \A y \in {m[1] : m \in ok} : x <= y
              k == CHOOSE x \in {m[2] : m \in {n \in ok : n[1] = s}} :
                     \A y \in {m[2] : m \in {n \in ok : n[1] = s}} : y <= x
          IN CNCaptureAt(t, k)

\* Mutant: only the first DNS entry is collected.
RECURSIVE dnsMatches_firstOnly(_, _)
dnsMatches_firstOnly(t, i) ==
  IF i > Len(t) THEN <<>>
  ELSE IF t[i] = "DNS:" /\ i + 1 <= Len(t) /\ t[i + 1] \notin {",", "\n"}
    THEN <<trim(SubSeq(t, i + 1, RunEnd(t, i + 1, {",", "\n"}) - 1))>>
    ELSE dnsMatches_firstOnly(t, i + 1)

\* stdout.matchAll(/DNS:([^,\n]+)/g), each capture trimmed, from index i on.
RECURSIVE dnsMatches(_, _)
dnsMatches(t, i) ==
  IF i > Len(t) THEN <<>>
  ELSE IF t[i] = "DNS:" /\ i + 1 <= Len(t) /\ t[i + 1] \notin {",", "\n"}
    THEN LET e == RunEnd(t, i + 1, {",", "\n"})
         IN <<trim(SubSeq(t, i + 1, e - 1))>> \o dnsMatches(t, e)
    ELSE dnsMatches(t, i + 1)

\* stdout.match(/notAfter=(.+)/) and new Date(match[1]): <<>> when the
\* pattern is absent, else <<day>> (<<-1>> for an invalid date).
notAfterMatch(t) ==
  LET at == {i \in DOMAIN t :
               t[i] = "notAfter=" /\ i + 1 <= Len(t) /\ t[i + 1] # "\n"}
  IN IF at = {} THEN <<>>
     ELSE LET i == CHOOSE x \in at : \A y \in at : x <= y
              capture == SubSeq(t, i + 1, RunEnd(t, i + 1, {"\n"}) - 1)
              dates == {d \in Days : <<ToString(d)>> = capture}
          IN IF dates = {} THEN <<-1>> ELSE <<CHOOSE d \in dates : TRUE>>

\* hostnames.filter((hostname) => !names.includes(hostname))
missingNames(hostnames, names) ==
  SelectSeq(hostnames, LAMBDA h : \A i \in DOMAIN names : names[i] # h)

----------------------------------------------------------------------------
(* The engine's verdicts *)

\* `x509 -checkend 0` exits 0 when the certificate outlives the clock.
Checkend(cert, t) == cert.present /\ cert.notAfter > t

\* `rsa -check` exits 0 on a structurally valid key.
RsaCheck(key) == key.valid

\* `verify -purpose sslserver` exits 0 on a chain to an installed trust
\* root, within its validity period.
Verify(cert, t) == cert.present /\ cert.trusted /\ cert.notAfter > t

----------------------------------------------------------------------------
(* validateSslCert (lines 174-288), one action per awaited invocation *)

\* The fixed order of the engine invocations.
ValidationOrder ==
  <<"checkend", "rsacheck", "verify", "enddate", "subject", "altnames",
    "modcert", "modkey">>

\* Mutant: the key check runs before the expiry check.
StepAfter_keyFirst(step) ==
  CASE step = "start" -> "rsacheck"
    [] step = "rsacheck" -> "checkend"
    [] step = "checkend" -> "verify"
    [] step = "verify" -> "enddate"
    [] step = "enddate" -> "subject"
    [] step = "subject" -> "altnames"
    [] step = "altnames" -> "modcert"
    [] step = "modcert" -> "modkey"
    [] step = "modkey" -> "resolved"

\* The statement that follows each awaited invocation.
StepAfter(step) ==
  CASE step = "start" -> "checkend"
    [] step = "checkend" -> "rsacheck"
    [] step = "rsacheck" -> "verify"
    [] step = "verify" -> "enddate"
    [] step = "enddate" -> "subject"
    [] step = "subject" -> "altnames"
    [] step = "altnames" -> "modcert"
    [] step = "modcert" -> "modkey"
    [] step = "modkey" -> "resolved"

\* Mutant: the two modulus texts are compared by length only.
modulusMismatch_byLength(modCert, modKey) == Len(modCert) # Len(modKey)

\* Line 285: modCert !== modKey.
modulusMismatch(modCert, modKey) == modCert # modKey

\* Mutant: a certificate with exactly 14 days left is warned about too.
NearExpiry_inclusive(notAfter, t) == notAfter - t <= WarnWindow

\* Line 220: notAfter - now < 14 * 24 * 60 * 60 * 1000.
NearExpiry(notAfter, t) == notAfter - t < WarnWindow

InitV ==
  /\ BuilderOff
  /\ ExtrasOff
  /\ DetailsOff
  /\ TempOff
  /\ vpc = StepAfter("start")
  /\ now = StartDay
  /\ vstart = StartDay
  /\ ticks = 0
  /\ vcert \in Certs
  /\ vkey \in Keys
  /\ vfmt \in {"oneline", "compat"}
  /\ (~vcert.present => vfmt = "oneline" /\ vkey.modulus = 1)
  /\ vhosts \in Requests
  /\ vlog = <<>>
  /\ vout = <<>>
  /\ verr = NoError
  /\ vwarn = FALSE

\* A throw, or a rejected engine promise: validateSslCert rejects.
Reject(kind, cmd, missing) ==
  /\ verr' = [kind |-> kind, cmd |-> cmd, missing |-> missing]
  /\ vpc' = "rejected"

\* spawnAsync rejects when the engine exits non-zero.
EngineRejects(cmd) == Reject("EngineInvocationError", cmd, <<>>)

Pass(step) == vpc' = StepAfter(step) /\ UNCHANGED verr

\* Lines 186-194.
validate_checkend ==
  /\ vpc = "checkend"
  /\ vlog' = Append(vlog, "checkend")
  /\ IF Checkend(vcert, now) THEN Pass("checkend")
     ELSE EngineRejects("checkend")
  /\ UNCHANGED <<now, ticks, vstart, vcert, vkey, vfmt, vhosts, vout, vwarn>>
  /\ UNCHANGED bvars
  /\ UNCHANGED dvars
  /\ UNCHANGED tvars
  /\ UNCHANGED xvars

\* Line 195.
validate_rsacheck ==
  /\ vpc = "rsacheck"
  /\ vlog' = Append(vlog, "rsacheck")
  /\ IF RsaCheck(vkey) THEN Pass("rsacheck") ELSE EngineRejects("rsacheck")
  /\ UNCHANGED <<now, ticks, vstart, vcert, vkey, vfmt, vhosts, vout, vwarn>>
  /\ UNCHANGED bvars
  /\ UNCHANGED dvars
  /\ UNCHANGED tvars
  /\ UNCHANGED xvars

\* Lines 196-202.
validate_verify ==
  /\ vpc = "verify"
  /\ vlog' = Append(vlog, "verify")
  /\ IF Verify(vcert, now) THEN Pass("verify") ELSE EngineRejects("verify")
  /\ UNCHANGED <<now, ticks, vstart, vcert, vkey, vfmt, vhosts, vout, vwarn>>
  /\ UNCHANGED bvars
  /\ UNCHANGED dvars
  /\ UNCHANGED tvars
  /\ UNCHANGED xvars

\* Lines 204-228: the not-after date, the expiry throw, the warning.
validate_enddate ==
  /\ vpc = "enddate"
  /\ vlog' = Append(vlog, "enddate")
  /\ IF ~vcert.present
       THEN EngineRejects("enddate") /\ UNCHANGED vwarn
       ELSE LET match == notAfterMatch(EnddateText(vcert))
            IN IF match = <<>>
                 THEN Reject("ParseError", "", <<>>) /\ UNCHANGED vwarn
                 ELSE LET notAfter == match[1]
                          valid == notAfter # -1
                      IN IF valid /\ now >= notAfter
                           THEN /\ Reject("ExpiredCertificateError", "", <<>>)
                                /\ UNCHANGED vwarn
                           ELSE /\ vwarn' = (valid /\ NearExpiry(notAfter, now))
                                /\ Pass("enddate")
  /\ UNCHANGED <<now, ticks, vstart, vcert, vkey, vfmt, vhosts, vout>>
  /\ UNCHANGED bvars
  /\ UNCHANGED dvars
  /\ UNCHANGED tvars
  /\ UNCHANGED xvars

\* Lines 230-236.
validate_subject ==
  /\ vpc = "subject"
  /\ vlog' = Append(vlog, "subject")
  /\ IF vcert.present
       THEN vout' = SubjectText(vcert, vfmt) /\ Pass("subject")
       ELSE EngineRejects("subject") /\ UNCHANGED vout
  /\ UNCHANGED <<now, ticks, vstart, vcert, vkey, vfmt, vhosts, vwarn>>
  /\ UNCHANGED bvars
  /\ UNCHANGED dvars
  /\ UNCHANGED tvars
  /\ UNCHANGED xvars

\* Lines 238-265: the subjectAltName text, then the name coverage check.
validate_altnames ==
  /\ vpc = "altnames"
  /\ vlog' = Append(vlog, "altnames")
  /\ IF ~vcert.present
       THEN EngineRejects("altnames")
       ELSE LET cn == cnMatch(vout)
            IN IF cn = <<>>
                 THEN Reject("NoCommonName", "", <<>>)
                 ELSE LET names == <<trim(cn)>>
                                   \o dnsMatches(AltNamesText(vcert), 1)
                          missing == missingNames(vhosts, names)
                      IN IF Len(missing) > 0
                           THEN Reject("MissingHostnamesError", "", missing)
                           ELSE Pass("altnames")
  /\ UNCHANGED <<now, ticks, vstart, vcert, vkey, vfmt, vhosts, vout, vwarn>>
  /\ UNCHANGED bvars
  /\ UNCHANGED dvars
  /\ UNCHANGED tvars
  /\ UNCHANGED xvars

\* Lines 267-275.
validate_modcert ==
  /\ vpc = "modcert"
  /\ vlog' = Append(vlog, "modcert")
  /\ IF vcert.present
       THEN vout' = trim(ModulusText(vcert.modulus)) /\ Pass("modcert")
       ELSE EngineRejects("modcert") /\ UNCHANGED vout
  /\ UNCHANGED <<now, ticks, vstart, vcert, vkey, vfmt, vhosts, vwarn>>
  /\ UNCHANGED bvars
  /\ UNCHANGED dvars
  /\ UNCHANGED tvars
  /\ UNCHANGED xvars

\* Lines 277-287.
validate_modkey ==
  /\ vpc = "modkey"
  /\ vlog' = Append(vlog, "modkey")
  /\ IF ~vkey.valid
       THEN EngineRejects("modkey")
       ELSE LET modCert == vout
                modKey == trim(ModulusText(vkey.modulus))
            IN IF modulusMismatch(modCert, modKey)
                 THEN Reject("KeyMismatchError", "", <<>>)
                 ELSE Pass("modkey")
  /\ UNCHANGED <<now, ticks, vstart, vcert, vkey, vfmt, vhosts, vout, vwarn>>
  /\ UNCHANGED bvars
  /\ UNCHANGED dvars
  /\ UNCHANGED tvars
  /\ UNCHANGED xvars

\* A day passes while validateSslCert awaits the engine.
Tick ==
  /\ vpc \notin {"off", "wait", "resolved", "rejected"}
  /\ ticks < MaxTicks
  /\ now' = now + 1
  /\ ticks' = ticks + 1
  /\ UNCHANGED <<vpc, vstart, vcert, vkey, vfmt, vhosts, vlog, vout, verr,
                 vwarn>>
  /\ UNCHANGED bvars
  /\ UNCHANGED dvars
  /\ UNCHANGED tvars
  /\ UNCHANGED xvars

NextV ==
  \/ validate_checkend
  \/ validate_rsacheck
  \/ validate_verify
  \/ validate_enddate
  \/ validate_subject
  \/ validate_altnames
  \/ validate_modcert
  \/ validate_modkey
  \/ Tick

SpecV == InitV /\ [][NextV]_vars

----------------------------------------------------------------------------
(* Issuing, then validating what was issued *)

\* A process that will validate the leaf it issues: validateSslCert is not
\* called yet.
ValidatorWaiting ==
  /\ vpc = "wait"
  /\ now = StartDay
  /\ ticks = 0
  /\ vstart = StartDay
  /\ vcert = NoCert
  /\ vkey = [valid |-> FALSE, modulus |-> 0]
  /\ vfmt = "oneline"
  /\ vhosts = <<>>
  /\ vlog = <<>>
  /\ vout = <<>>
  /\ verr = NoError
  /\ vwarn = FALSE

InitChain ==
  ValidatorWaiting /\ DetailsOff /\ TempOff /\ ExtrasOff /\ BuilderInit

\* The engine invocation that wrote the file now at path p (files that were
\* there before the run have none).
WrittenBy(p) == log[fs[p] - 1]

\* The trust roots installed on the machine: nothing in the builder installs
\* a certificate (#cleanUp only prints the paths to install, lines 691-696),
\* so a CA certificate created in this run is not among them; one that was
\* in the store before the run is, when the operator installed it.
MayBeInstalled(certPath) == certPath \in Paths /\ fs[certPath] = 1

\* The certificate issueSignedCert wrote at info.certPath, as the engine
\* reads it back: subject CN = name, one DNS entry per hostname, valid for
\* 9999 days, carrying the public key of the key file the signing request
\* wrote just before.
IssuedCert(info, installed) ==
  LET e == WrittenBy(info.certPath)
  IN [present |-> TRUE,
      notAfter |-> now + CertDays,
      cn |-> e.name,
      san |-> IF IsLeaf(e.hostnames) THEN e.hostnames.list ELSE <<>>,
      modulus |-> fs[info.certPath] - 1,
      trusted |-> installed /\ MayBeInstalled(e.issuer.certPath)]

\* The private key file at keyPath.
IssuedKey(keyPath) == [valid |-> fs[keyPath] # 0, modulus |-> fs[keyPath]]

\* The caller passes the leaf descriptor the last call returned, with the
\* hostnames it was issued for, to validateSslCert.
CallValidateSslCert ==
  /\ pc = "idle"
  /\ vpc = "wait"
  /\ rets # <<>>
  /\ LET last == rets[Len(rets)]
     IN /\ last.value # NoInfo
        /\ last.hostnames # <<>>
        /\ \E installed \in BOOLEAN :
             vcert' = IssuedCert(last.value, installed)
        /\ vkey' = IssuedKey(last.value.keyPath)
        /\ vhosts' = last.hostnames
  /\ vfmt' \in {"oneline", "compat"}
  /\ vstart' = now
  /\ vpc' = StepAfter("start")
  /\ pc' = "validating"
  /\ UNCHANGED <<now, ticks, vlog, vout, verr, vwarn>>
  /\ UNCHANGED <<safeMode, persistent, fs, rootCAInfo, newCAs, tempDir,
                 tempExists, handler, calls, cur, ssl, log, exitCode, report,
                 nextOp, rets, snap>>
  /\ UNCHANGED dvars
  /\ UNCHANGED tvars
  /\ UNCHANGED xvars

\* validateSslCert settled: the process ends, with status 1 when the
\* rejection is not handled.
validated ==
  /\ pc = "validating"
  /\ vpc \in {"resolved", "rejected"}
  /\ Exit(IF vpc = "rejected" THEN 1 ELSE 0)
  /\ UNCHANGED <<safeMode, persistent, fs, rootCAInfo, newCAs, tempDir,
                 tempExists, handler, calls, log, report, snap>>
  /\ UNCHANGED vvars
  /\ UNCHANGED dvars
  /\ UNCHANGED tvars
  /\ UNCHANGED xvars

NextChain ==
  \/ Next
  \/ CallValidateSslCert
  \/ NextV
  \/ validated

SpecChain == InitChain /\ [][NextChain]_vars

----------------------------------------------------------------------------
(* CertInfo.getDetails (cert-info.js) *)

\* getDetails calls made in one process.
MaxGetDetails == 3

\* A getDetails call: the descriptor it is made on, the state of that
\* descriptor's engine process when it is made ("idle" for the call that
\* starts it), and how it settled.
DetailsCall(d, state, value) ==
  [on |-> d, at |-> hydrate[d], state |-> state, value |-> value]

InitInfo ==
  /\ BuilderOff
  /\ ValidatorOff
  /\ TempOff
  /\ DetailsOff
  /\ ExtrasOff

\* Lines 13-22: `if (!this.#x509)` calls #hydrate, which sets #x509 = {} and
\* spawns the engine before the first await; otherwise the call returns
\* this.#x509 as it is.
getDetails ==
  /\ Len(dcalls) < MaxGetDetails
  /\ \E d \in Descriptors :
       IF x509[d] = "null"
         THEN /\ x509' = [x509 EXCEPT ![d] = "empty"]
              /\ hydrate' = [hydrate EXCEPT ![d] = "running"]
              /\ spawned' = [spawned EXCEPT ![d] = @ + 1]
              /\ dcalls' = Append(dcalls, DetailsCall(d, "awaiting", "none"))
         ELSE /\ dcalls' = Append(dcalls, DetailsCall(d, "resolved", x509[d]))
              /\ UNCHANGED <<x509, hydrate, spawned>>
  /\ UNCHANGED bvars
  /\ UNCHANGED vvars
  /\ UNCHANGED tvars
  /\ UNCHANGED xvars

\* Lines 40 and 17: the engine exits. On exit 0 #x509 becomes its output and
\* the awaiting call returns it; otherwise the awaiting call rejects with
\* spawnAsync's error and #x509 stays {}.
hydrate_settle ==
  /\ \E d \in Descriptors :
       /\ hydrate[d] = "running"
       /\ \E ok \in BOOLEAN :
            /\ hydrate' = [hydrate EXCEPT ![d] = IF ok THEN "ok" ELSE "failed"]
            /\ x509' = [x509 EXCEPT ![d] = IF ok THEN "text" ELSE @]
            /\ dcalls' =
                 [k \in DOMAIN dcalls |->
                    IF dcalls[k].on = d /\ dcalls[k].state = "awaiting"
                      THEN IF ok
                             THEN [dcalls[k] EXCEPT !.state = "resolved",
                                                    !.value = "text"]
                             ELSE [dcalls[k] EXCEPT
                                     !.state = "rejected",
                                     !.value = "EngineInvocationError"]
                      ELSE dcalls[k]]
  /\ UNCHANGED spawned
  /\ UNCHANGED bvars
  /\ UNCHANGED vvars
  /\ UNCHANGED tvars
  /\ UNCHANGED xvars

NextInfo ==
  \/ getDetails
  \/ hydrate_settle

SpecInfo == InitInfo /\ [][NextInfo]_vars

----------------------------------------------------------------------------
(* #getTempDir and #getConfFile under overlapping calls *)

\* The places that ask for the workspace directory (#getTempDir) or for the
\* shared config path (#getConfFile): create line 163, createRootCA lines 300
\* and 362, issueSignedCert lines 415, 434 and 499.
OperationSites ==
  {"createRootCA:300", "createRootCA:362", "issueSignedCert:415",
   "issueSignedCert:434", "issueSignedCert:499"}
ConfSites == {"create:163", "createRootCA:362", "issueSignedCert:434",
              "issueSignedCert:499"}

\* What a settled request resolved to: the directory, or the shared config
\* path inside it (lines 652-654).
Resolved(r) ==
  IF r.site \in ConfSites THEN <<r.dir, "shared.conf">> ELSE <<r.dir>>

InitTemp ==
  /\ BuilderOff
  /\ ValidatorOff
  /\ DetailsOff
  /\ TempOff
  /\ ExtrasOff

\* Mutant: the builder is handed out as soon as it is constructed, while
\* create still awaits its config file.
BuilderReturned_early == reqs[0].state # "new"

\* create returns the builder only after `await builder.#getConfFile()` and
\* the config file write (lines 163-164); the constructor cannot be called
\* from elsewhere (lines 59-61).
BuilderReturned == reqs[0].state = "done"

\* Lines 642-645 up to the await: `if (!this.#tempDir)` starts mkdtemp,
\* otherwise the request resolves with this.#tempDir.
getTempDir_enter ==
  /\ \E i \in 0..MaxRequests :
       /\ reqs[i].state = "new"
       /\ \A j \in 0..(i - 1) : reqs[j].state # "new"
       /\ (i > 0 => BuilderReturned)
       /\ \E site \in IF i = 0 THEN {"create:163"} ELSE OperationSites :
            IF tmp = 0
              THEN /\ mkdtemps' = mkdtemps + 1
                   /\ reqs' = [reqs EXCEPT ![i] =
                                 [site |-> site, state |-> "awaiting",
                                  dir |-> mkdtemps + 1]]
              ELSE /\ reqs' = [reqs EXCEPT ![i] =
                                 [site |-> site, state |-> "done",
                                  dir |-> tmp]]
                   /\ UNCHANGED mkdtemps
  /\ UNCHANGED tmp
  /\ UNCHANGED bvars
  /\ UNCHANGED vvars
  /\ UNCHANGED dvars
  /\ UNCHANGED xvars

\* Lines 644-649 after the await: this.#tempDir = the new directory, which
\* the request resolves with.
getTempDir_assign ==
  /\ \E i \in 0..MaxRequests :
       /\ reqs[i].state = "awaiting"
       /\ tmp' = reqs[i].dir
       /\ reqs' = [reqs EXCEPT ![i].state = "done"]
  /\ UNCHANGED mkdtemps
  /\ UNCHANGED bvars
  /\ UNCHANGED vvars
  /\ UNCHANGED dvars
  /\ UNCHANGED xvars

NextTemp ==
  \/ getTempDir_enter
  \/ getTempDir_assign

SpecTemp == InitTemp /\ [][NextTemp]_vars

----------------------------------------------------------------------------
(* issueSignedCert calls for leaf certificates made on one builder, one    *)
(* after the other or overlapping (lines 415-521)                          *)

\* The calls a caller makes: <<name, hostnames>>.
LeafCalls ==
  {[name |-> A, hostnames |-> <<A>>], [name |-> A, hostnames |-> <<A, B>>],
   [name |-> B, hostnames |-> <<B>>], [name |-> B, hostnames |-> <<B, A>>]}

\* Array.prototype.join(",") on a list of token sequences.
RECURSIVE joinComma(_)
joinComma(list) ==
  IF list = <<>> THEN <<>>
  ELSE Head(list)
       \o (IF Len(list) > 1 THEN <<",">> ELSE <<>>)
       \o joinComma(Tail(list))

\* Lines 486-496: the config written to ssl_extensions.conf; of its
\* cert_extensions section only subjectAltName depends on the call.
extensionsConf(hostnames) ==
  <<"[cert_extensions]", "\n", "subjectAltName", " ", "=", " ">>
    \o joinComma(subjAltName(Hosts(hostnames))) \o <<"\n">>

\* The DNS entries the engine takes from the extension file it is given.
SanEntries(text) == dnsMatches(text, 1)

InitPar ==
  /\ SpawnOff
  /\ BuilderOff
  /\ PolicyOff
  /\ CreateOff
  /\ ValidatorOff
  /\ DetailsOff
  /\ TempOff
  /\ overlap \in BOOLEAN
  /\ icall \in [Issuers -> LeafCalls]
  /\ \A i, j \in Issuers : i # j => icall[i].hostnames # icall[j].hostnames
  /\ ipc = [i \in Issuers |-> "new"]
  /\ work = WorkAfterCreate
  /\ issued = [i \in Issuers |-> NoIssued]
  /\ ifatal = FALSE

\* The caller makes its next call: at once when it lets its calls overlap,
\* else after the previous call returned. The call runs to its first await
\* (lines 392-415; nothing to overwrite).
leaf_enter ==
  /\ ~ifatal
  /\ \E i \in Issuers :
       /\ ipc[i] = "new"
       /\ \A j \in Issuers : j < i => ipc[j] # "new"
       /\ overlap \/ \A j \in Issuers : j < i => ipc[j] = "done"
       /\ ipc' = [ipc EXCEPT ![i] = "req"]
  /\ UNCHANGED <<overlap, icall, work, issued, ifatal>>
  /\ UNCHANGED bvars
  /\ UNCHANGED vvars
  /\ UNCHANGED dvars
  /\ UNCHANGED tvars
  /\ UNCHANGED notPar

\* Lines 417-454: the signing-request invocation writes join(tempDir,
\* "req.csr") and the call resumes when it has closed; on failure the catch
\* block exits the process.
leaf_req ==
  /\ ~ifatal
  /\ \E i \in Issuers :
       /\ ipc[i] = "req"
       /\ \E ok \in BOOLEAN :
            IF ok
              THEN /\ work' = [work EXCEPT !["req.csr"] =
                                 [by |-> i, text |-> subj(org, icall[i].name)]]
                   /\ ipc' = [ipc EXCEPT ![i] = "sign"]
                   /\ UNCHANGED ifatal
              ELSE /\ ifatal' = TRUE
                   /\ UNCHANGED <<work, ipc>>
  /\ UNCHANGED <<overlap, icall, issued>>
  /\ UNCHANGED bvars
  /\ UNCHANGED vvars
  /\ UNCHANGED dvars
  /\ UNCHANGED tvars
  /\ UNCHANGED notPar

\* Lines 456-514 up to the await: the extension file is written to
\* join(tempDir, "ssl_extensions.conf") and the signing invocation spawned.
leaf_spawnSign ==
  /\ ~ifatal
  /\ \E i \in Issuers :
       /\ ipc[i] = "sign"
       /\ work' = [work EXCEPT !["ssl_extensions.conf"] =
                     [by |-> i, text |-> extensionsConf(icall[i].hostnames)]]
       /\ ipc' = [ipc EXCEPT ![i] = "signing"]
  /\ UNCHANGED <<overlap, icall, issued, ifatal>>
  /\ UNCHANGED bvars
  /\ UNCHANGED vvars
  /\ UNCHANGED dvars
  /\ UNCHANGED tvars
  /\ UNCHANGED notPar

\* Lines 514-521: the signing invocation reads the files named by -in and
\* -extfile, writes the certificate and closes; issueSignedCert returns. On
\* failure the catch block exits the process.
leaf_signed ==
  /\ ~ifatal
  /\ \E i \in Issuers :
       /\ ipc[i] = "signing"
       /\ \E ok \in BOOLEAN :
            IF ok
              THEN /\ issued' =
                        [issued EXCEPT ![i] =
                           [request |-> work["req.csr"],
                            dns |-> SanEntries(
                                      work["ssl_extensions.conf"].text)]]
                   /\ ipc' = [ipc EXCEPT ![i] = "done"]
                   /\ UNCHANGED ifatal
              ELSE /\ ifatal' = TRUE
                   /\ UNCHANGED <<issued, ipc>>
  /\ UNCHANGED <<overlap, icall, work>>
  /\ UNCHANGED bvars
  /\ UNCHANGED vvars
  /\ UNCHANGED dvars
  /\ UNCHANGED tvars
  /\ UNCHANGED notPar

NextPar ==
  \/ leaf_enter
  \/ leaf_req
  \/ leaf_spawnSign
  \/ leaf_signed

SpecPar == InitPar /\ [][NextPar]_vars

----------------------------------------------------------------------------
(* Policies: CertOptions, the sharedConfig the constructor derives from    *)
(* them, and the engine invocations built from both                        *)

\* The option objects a caller configures.
Configs ==
  [org : {Falsy, <<"Acme">>, <<"Globex">>},
   countryName : {Falsy, <<"US">>, <<"DE">>}]

\* Line 71.
nameConstraints == <<"critical,permitted;DNS:.test">>

\* Lines 96-103.
root_cert_extensions ==
  [basicConstraints |-> <<"critical,CA:TRUE">>,
   keyUsage |-> <<"critical,keyCertSign">>,
   extendedKeyUsage |-> <<"serverAuth,clientAuth">>,
   subjectKeyIdentifier |-> <<"hash">>,
   subjectAltName |-> <<"dirName:root_distinguished_name">>]

\* Lines 106-114.
cert_extensions ==
  [basicConstraints |-> <<"critical,CA:TRUE">>,
   nameConstraints |-> nameConstraints,
   keyUsage |-> <<"critical,keyCertSign">>,
   extendedKeyUsage |-> <<"serverAuth,clientAuth">>,
   subjectKeyIdentifier |-> <<"hash">>,
   subjectAltName |-> <<"dirName:req_distinguished_name">>,
   authorityKeyIdentifier |-> <<"keyid:always">>]

\* Lines 117-125.
ssl_cert_extensions ==
  [basicConstraints |-> <<"critical,CA:FALSE">>,
   keyUsage |-> <<"critical,digitalSignature,keyEncipherment">>,
   extendedKeyUsage |-> <<"serverAuth,clientAuth">>,
   subjectKeyIdentifier |-> <<"hash">>,
   subjectAltName |-> <<"dirName:req_distinguished_name">>,
   authorityKeyIdentifier |-> <<"keyid:always">>]

\* Constructor lines 72-126: this.sharedConfig.
SharedConfigOf(o) ==
  [req |-> [prompt |-> <<"no">>,
            distinguished_name |-> <<"root_distinguished_name">>],
   root_distinguished_name |->
     [organizationName |-> o.org,
      commonName |-> o.org \o <<" Root Dev CA">>,
      countryName |-> o.countryName],
   req_distinguished_name |->
     [organizationName |-> o.org,
      commonName |-> o.org \o <<" Intermediate Dev CA">>,
      countryName |-> o.countryName],
   root_cert_extensions |-> root_cert_extensions,
   cert_extensions |-> cert_extensions,
   ssl_cert_extensions |-> ssl_cert_extensions]

\* Lines 487-496: the config written to the request's extension file.
sslExtensions(hostnames) ==
  [cert_extensions |->
     [ssl_cert_extensions EXCEPT
        !.subjectAltName = joinComma(subjAltName(hostnames))]]

\* Mutant: every signing reads its extensions from the shared config.
extfile_sharedOnly(shared, hostnames) == shared

\* Lines 486-500: the file given as -extfile to the signing invocation.
extfile(shared, hostnames) ==
  IF IsLeaf(hostnames) THEN sslExtensions(hostnames) ELSE shared

\* The extensions the engine applies: the section named by -extensions in
\* the file named by -config (self-signing) or -extfile (signing).
ExtensionSet(inv) == inv.file[inv.extensions]

\* Names and hostname arguments issueSignedCert is called with.
PolicyNames(shared) == {shared.req_distinguished_name.commonName, A, B}
PolicyHosts == {NoHosts, Hosts(<<>>), Hosts(<<A>>), Hosts(<<A, B>>)}

InitPolicy ==
  /\ SpawnOff
  /\ BuilderOff
  /\ CreateOff
  /\ ValidatorOff
  /\ DetailsOff
  /\ TempOff
  /\ ParallelOff
  /\ optionsIn \in Configs
  /\ options = NoOptions
  /\ sharedConfig = NoConfig
  /\ built = <<>>

\* new CertOptions(config) and the CertBuilder constructor (lines 68-126).
construct ==
  /\ options = NoOptions
  /\ options' = CertOptions(optionsIn)
  /\ sharedConfig' = SharedConfigOf(CertOptions(optionsIn))
  /\ UNCHANGED <<optionsIn, built>>
  /\ UNCHANGED <<bvars, vvars, dvars, tvars>>
  /\ UNCHANGED notPolicy

\* createRootCA lines 338-371: the self-signing invocation.
policy_createRootCA ==
  /\ options # NoOptions
  /\ built' =
       << [what |-> "selfsign",
           name |-> sharedConfig.root_distinguished_name.commonName,
           hostnames |-> NoHosts, subj |-> <<>>,
           extensions |-> "root_cert_extensions",
           file |-> sharedConfig] >>
  /\ UNCHANGED <<optionsIn, options, sharedConfig>>
  /\ UNCHANGED <<bvars, vvars, dvars, tvars>>
  /\ UNCHANGED notPolicy

\* issueSignedCert lines 418-505: the signing-request invocation and the
\* signing invocation.
policy_issueSignedCert ==
  /\ options # NoOptions
  /\ \E name \in PolicyNames(sharedConfig), hostnames \in PolicyHosts :
       built' =
         << [what |-> "req", name |-> name, hostnames |-> hostnames,
             subj |-> subj(options.org, name), extensions |-> "req",
             file |-> sharedConfig],
            [what |-> "sign", name |-> name, hostnames |-> hostnames,
             subj |-> <<>>, extensions |-> "cert_extensions",
             file |-> extfile(sharedConfig, hostnames)] >>
  /\ UNCHANGED <<optionsIn, options, sharedConfig>>
  /\ UNCHANGED <<bvars, vvars, dvars, tvars>>
  /\ UNCHANGED notPolicy

NextPolicy ==
  \/ construct
  \/ policy_createRootCA
  \/ policy_issueSignedCert

SpecPolicy == InitPolicy /\ [][NextPolicy]_vars

----------------------------------------------------------------------------
(* CertBuilder.create, statement by statement, and direct constructor      *)
(* calls (lines 58-165)                                                    *)

\* create() calls and direct constructor calls made in one process.
MaxCreate == 2
MaxNew == 2

\* The rootCAKeyPath argument: null, a string, or anything else.
RootKeyArgs == {"null", "string", "other"}

\* Mutant: the builder is constructed before the engine is looked for.
createSteps_constructFirst ==
  <<"constructor", "execSync", "mkdirSync", "getConfFile", "writeConfFile">>

\* The statements of create() after the options default, in order: lines
\* 149-153, 154-161, 162, 163 (the awaited argument) and 163 (the call).
createSteps ==
  <<"execSync", "constructor", "mkdirSync", "getConfFile", "writeConfFile">>

\* What create() and the constructor can change outside the builder.
Effects == <<Len(instances), handlers, storeDir, workDirs, confFiles>>

\* Constructor lines 62-67: the rootCAKeyPath test.
validRootCAKeyPath(arg) == arg \in {"null", "string"}

InitCreate ==
  /\ SpawnOff
  /\ BuilderOff
  /\ ValidatorOff
  /\ DetailsOff
  /\ TempOff
  /\ ParallelOff
  /\ PolicyOff
  /\ constructing = FALSE
  /\ creating = NoCreate
  /\ creates = <<>>
  /\ instances = <<>>
  /\ handlers = 0
  /\ storeDir \in BOOLEAN
  /\ workDirs = 0
  /\ confFiles = 0
  /\ news = 0

\* A caller calls create(certDir, persistentRootCAKeyPath, ...).
create_call ==
  /\ creating = NoCreate
  /\ Len(creates) < MaxCreate
  /\ \E arg \in RootKeyArgs, available \in BOOLEAN :
       creating' = [rootCAKeyPath |-> arg, engine |-> available, at |-> 1,
                    done |-> <<>>, pre |-> Effects]
  /\ UNCHANGED <<constructing, creates, instances, handlers, storeDir,
                 workDirs, confFiles, news>>
  /\ UNCHANGED <<bvars, vvars, dvars, tvars>>
  /\ UNCHANGED notCreate

\* create() rejects at the statement it is at; the statement that throws
\* has changed nothing outside the builder.
create_throws ==
  /\ creates' = Append(creates,
                       [rootCAKeyPath |-> creating.rootCAKeyPath,
                        engine |-> creating.engine,
                        done |-> creating.done,
                        threwAt |-> createSteps[creating.at],
                        pre |-> creating.pre, post |-> Effects])
  /\ creating' = NoCreate
  /\ UNCHANGED instances

\* create() goes on to its next statement.
create_goesOn ==
  /\ creating' = [creating EXCEPT
                    !.at = @ + 1,
                    !.done = Append(@, createSteps[creating.at])]
  /\ UNCHANGED <<creates, instances>>

\* One statement of create(). The constructor (lines 58-129) runs between
\* `#constructing = true` and `#constructing = false`; when it throws, the
\* second assignment is not reached.
create_step ==
  /\ creating # NoCreate
  /\ creating.at <= Len(createSteps)
  /\ LET stmt == createSteps[creating.at]
     IN CASE stmt = "execSync" ->
               /\ IF creating.engine THEN create_goesOn ELSE create_throws
               /\ UNCHANGED <<constructing, handlers, storeDir, workDirs,
                              confFiles>>
          [] stmt = "constructor" ->
               IF validRootCAKeyPath(creating.rootCAKeyPath)
                 THEN /\ handlers' = handlers + 1
                      /\ constructing' = FALSE
                      /\ create_goesOn
                      /\ UNCHANGED <<storeDir, workDirs, confFiles>>
                 ELSE /\ constructing' = TRUE
                      /\ create_throws
                      /\ UNCHANGED <<handlers, storeDir, workDirs, confFiles>>
          [] stmt = "mkdirSync" ->
               /\ \E ok \in BOOLEAN :
                    IF ok \/ storeDir
                      THEN storeDir' = TRUE /\ create_goesOn
                      ELSE UNCHANGED storeDir /\ create_throws
               /\ UNCHANGED <<constructing, handlers, workDirs, confFiles>>
          [] stmt = "getConfFile" ->
               /\ \E ok \in BOOLEAN :
                    IF ok
                      THEN workDirs' = workDirs + 1 /\ create_goesOn
                      ELSE UNCHANGED workDirs /\ create_throws
               /\ UNCHANGED <<constructing, handlers, storeDir, confFiles>>
          [] stmt = "writeConfFile" ->
               /\ \E ok \in BOOLEAN :
                    IF ok
                      THEN confFiles' = confFiles + 1 /\ create_goesOn
                      ELSE UNCHANGED confFiles /\ create_throws
               /\ UNCHANGED <<constructing, handlers, storeDir, workDirs>>
  /\ UNCHANGED news
  /\ UNCHANGED <<bvars, vvars, dvars, tvars>>
  /\ UNCHANGED notCreate

\* Line 164: create() returns the builder to its caller.
create_return ==
  /\ creating # NoCreate
  /\ creating.at = Len(createSteps) + 1
  /\ instances' = Append(instances, "create")
  /\ creates' = Append(creates,
                       [rootCAKeyPath |-> creating.rootCAKeyPath,
                        engine |-> creating.engine,
                        done |-> creating.done,
                        threwAt |-> "nowhere",
                        pre |-> creating.pre, post |-> [Effects EXCEPT ![1] = @ + 1]])
  /\ creating' = NoCreate
  /\ UNCHANGED <<constructing, handlers, storeDir, workDirs, confFiles, news>>
  /\ UNCHANGED <<bvars, vvars, dvars, tvars>>
  /\ UNCHANGED notCreate

\* create() is suspended at its await (line 163), where other code of the
\* process can run; all it does before is synchronous.
AtAwait ==
  /\ creating # NoCreate
  /\ creating.at <= Len(createSteps)
  /\ createSteps[creating.at] = "writeConfFile"

\* Some code calls `new CertBuilder(certDir, options, rootCAKeyPath,
\* verbose)` itself (lines 58-129).
new_CertBuilder ==
  /\ creating = NoCreate \/ AtAwait
  /\ news < MaxNew
  /\ news' = news + 1
  /\ \E arg \in RootKeyArgs :
       IF constructing /\ validRootCAKeyPath(arg)
         THEN /\ instances' = Append(instances, "new")
              /\ handlers' = handlers + 1
         ELSE UNCHANGED <<instances, handlers>>
  /\ UNCHANGED <<constructing, creating, creates, storeDir, workDirs,
                 confFiles>>
  /\ UNCHANGED <<bvars, vvars, dvars, tvars>>
  /\ UNCHANGED notCreate

NextCreate ==
  \/ create_call
  \/ create_step
  \/ create_return
  \/ new_CertBuilder

SpecCreate == InitCreate /\ [][NextCreate]_vars

----------------------------------------------------------------------------
(* spawnAsync, in its two copies: the promise of one engine invocation     *)

\* spawnAsync calls followed in one run, and data events per stream.
MaxSpawns == 2
MaxChunks == 2

\* The two copies of spawnAsync.
Impls == {"part_001", "process-util"}

SpawnCommands == {"openssl"}
SpawnArgs == {<<>>, <<"version">>, <<"x509", "-noout">>}
Chunks == {"a", "b"}

\* Exit codes of a process that ran, and the codes the runtime reports on
\* "close" for a process it could not start.
ExitCodes == {0, 1, 2}
FailCodes == {-2, -13}

\* A JavaScript string built by `+=` from data events, and null.
Text(chunks) == [is |-> "string", text |-> chunks]
Null == [is |-> "null"]

\* `text += data.toString()`.
PlusData(t, chunk) == Text(t.text \o <<chunk>>)

\* The closure variables when the listeners are registered. process-util
\* starts stdout as null when the child has no stdout stream.
closureAtSpawn(impl, piped) ==
  IF impl = "part_001"
    THEN [stdout |-> Text(<<>>), stderr |-> Text(<<>>)]
    ELSE [stdout |-> IF piped THEN Text(<<>>) ELSE Null]

\* The value the "close" listener resolves with.
resolution(impl, closure) ==
  IF impl = "part_001"
    THEN [is |-> "object", stdout |-> closure.stdout, stderr |-> closure.stderr]
    ELSE closure.stdout

\* args.map((arg) => `"${arg}"`)
quoted(args) == [i \in DOMAIN args |-> <<"\"", args[i], "\"">>]

\* The error the "close" listener rejects with: its message, piece by
\* piece.
closeError(command, args, code) ==
  [is |-> "Error",
   message |-> <<"Command:\n  ", command, " ", quoted(args),
                 "\nfailed with exit code ", code>>]

\* The error the runtime hands to the "error" listener when the process
\* could not be started; the listener passes it on as it is.
spawnError(command, code) ==
  [is |-> "Error", message |-> <<"spawn ", command, " ", code>>,
   errno |-> code]

\* Mutant: the "close" listener resolves whatever the exit code.
succeeded_always(code) == TRUE

\* `code === 0`.
succeeded(code) == code = 0

\* resolve(value) and reject(error) of a promise: they settle a pending
\* promise and are ignored by a settled one.
resolve(p, value) ==
  IF p.state = "pending" THEN [state |-> "resolved", value |-> value] ELSE p
reject(p, error) ==
  IF p.state = "pending" THEN [state |-> "rejected", value |-> error] ELSE p

\* The promise after a listener called resolve or reject, and the count of
\* its changes of state.
Settle(after) ==
  /\ promise' = after
  /\ settled' = IF after.state # promise.state THEN settled + 1 ELSE settled

InitSpawn ==
  /\ BuilderOff
  /\ ValidatorOff
  /\ DetailsOff
  /\ TempOff
  /\ ParallelOff
  /\ PolicyOff
  /\ CreateOff
  /\ SpawnOff

\* spawnAsync(command, args, options): the executor runs synchronously,
\* spawns the child and registers the listeners.
spawnAsync ==
  /\ child.state \in {"none", "closed"}
  /\ spawns < MaxSpawns
  /\ spawns' = spawns + 1
  /\ \E impl \in Impls, command \in SpawnCommands, args \in SpawnArgs,
        piped \in BOOLEAN :
       /\ child' = [state |-> "running", impl |-> impl, command |-> command,
                    args |-> args, piped |-> piped, errored |-> FALSE,
                    out |-> <<>>, err |-> <<>>, code |-> 0]
       /\ captured' = closureAtSpawn(impl, piped)
  /\ promise' = [state |-> "pending", value |-> NoValue]
  /\ settled' = 0
  /\ UNCHANGED <<bvars, vvars, dvars, tvars>>
  /\ UNCHANGED notSpawn

\* childProcess.stdout "data".
on_stdout_data ==
  /\ child.state = "running"
  /\ child.piped
  /\ Len(child.out) < MaxChunks
  /\ \E chunk \in Chunks :
       /\ child' = [child EXCEPT !.out = Append(@, chunk)]
       /\ captured' = [captured EXCEPT !.stdout = PlusData(@, chunk)]
  /\ UNCHANGED <<promise, settled, spawns>>
  /\ UNCHANGED <<bvars, vvars, dvars, tvars>>
  /\ UNCHANGED notSpawn

\* childProcess.stderr "data": only part_001 listens.
on_stderr_data ==
  /\ child.state = "running"
  /\ child.piped
  /\ Len(child.err) < MaxChunks
  /\ \E chunk \in Chunks :
       /\ child' = [child EXCEPT !.err = Append(@, chunk)]
       /\ captured' = IF child.impl = "part_001"
                        THEN [captured EXCEPT !.stderr = PlusData(@, chunk)]
                        ELSE captured
  /\ UNCHANGED <<promise, settled, spawns>>
  /\ UNCHANGED <<bvars, vvars, dvars, tvars>>
  /\ UNCHANGED notSpawn

\* childProcess "error": the process could not be started.
on_error ==
  /\ child.state = "running"
  /\ child.out = <<>>
  /\ child.err = <<>>
  /\ \E code \in FailCodes :
       /\ child' = [child EXCEPT !.state = "failed", !.errored = TRUE,
                                 !.code = code]
       /\ Settle(reject(promise, spawnError(child.command, code)))
  /\ UNCHANGED <<captured, spawns>>
  /\ UNCHANGED <<bvars, vvars, dvars, tvars>>
  /\ UNCHANGED notSpawn

\* childProcess "close": after a process that ran has ended and its streams
\* are closed, or after the "error" of one that could not be started.
on_close ==
  /\ child.state \in {"running", "failed"}
  /\ \E code \in (IF child.state = "failed" THEN {child.code} ELSE ExitCodes) :
       /\ child' = [child EXCEPT !.state = "closed", !.code = code]
       /\ Settle(IF succeeded(code)
                   THEN resolve(promise, resolution(child.impl, captured))
                   ELSE reject(promise,
                               closeError(child.command, child.args, code)))
  /\ UNCHANGED <<captured, spawns>>
  /\ UNCHANGED <<bvars, vvars, dvars, tvars>>
  /\ UNCHANGED notSpawn

NextSpawn ==
  \/ spawnAsync
  \/ on_stdout_data
  \/ on_stderr_data
  \/ on_error
  \/ on_close

SpecSpawn == InitSpawn /\ [][NextSpawn]_vars

----------------------------------------------------------------------------
(* Properties of the builder, checked under Spec *)

\* The process is inside issueSignedCert.
Issuing == pc \in {"isc_key", "isc_crt", "isc_req", "isc_sign"}

IsKeyOrCert(p) == p[3] \in {"key", "crt"}
EngineEvents == {i \in DOMAIN log : log[i].t = "engine"}
ConfirmEvents == {i \in DOMAIN log : log[i].t = "confirm"}
IntKey == join("certDir", intermediateName, "key")
IntCrt == join("certDir", intermediateName, "crt")

\* C1: with safe mode on, every engine invocation that targets a key or
\* certificate file which already existed is preceded by a "yes" to an
\* overwrite confirmation about that file, asked by the same createRootCA /
\* issueSignedCert invocation before any of its engine invocations; with
\* safe mode off no overwrite confirmation is ever asked.
C1_SafeModeOverwrite ==
  /\ safeMode =>
       \A i \in EngineEvents :
         \A p \in {q \in log[i].pre : IsKeyOrCert(q)} :
           \E j \in 1..(i - 1) :
             /\ log[j].t = "confirm" /\ log[j].what = "overwrite"
             /\ log[j].op = log[i].op
             /\ p \in log[j].paths
             /\ log[j].ok
             /\ \A k \in 1..(j - 1) :
                  ~(log[k].t = "engine" /\ log[k].op = log[i].op)
  /\ ~safeMode =>
       \A i \in ConfirmEvents : log[i].what # "overwrite"

\* C1 witness: in safe mode an existing certificate file was overwritten by
\* a successful engine invocation.
C1_Witness ==
  /\ safeMode
  /\ \E i \in EngineEvents :
       /\ log[i].ok
       /\ \E p \in log[i].pre : IsKeyOrCert(p) /\ fs[p] = i + 1

\* The top-level call in progress (or the last one made) is a second
\* issueSslCert for the leaf a first, successful issueSslCert populated the
\* store with, and the operator declined an overwrite confirmation in it.
C2_Case ==
  /\ safeMode
  /\ calls = 2
  /\ snap.fn = "issueSslCert"
  /\ Len(rets) >= 1
  /\ rets[1].fn = "issueSslCert"
  /\ rets[1].value # NoInfo
  /\ rets[1].hostnames[1] = snap.hostnames[1]
  /\ \E i \in ConfirmEvents :
       i > snap.logLen /\ log[i].what = "overwrite" /\ ~log[i].ok

\* C2: that second call returns null, issues no engine invocation, leaves
\* every file of the store as it found it and adds nothing to #newCAs.
C2_DeclinedSecondCall ==
  C2_Case =>
    /\ Len(rets) = 2
    /\ rets[2].fn = "issueSslCert"
    /\ rets[2].value = NoInfo
    /\ \A i \in EngineEvents : i <= snap.logLen
    /\ \A p \in StoreFiles \cup {persistentRootCAKeyPath} : fs[p] = snap.fs[p]
    /\ (tempExists => fs = snap.fs)
    /\ newCAs = snap.newCAs

\* C2 witness: the case happened and the call has returned.
C2_Witness == C2_Case /\ pc = "idle" /\ Len(rets) = 2

\* The engine invocations issued since the running top-level call began:
\* <<command, certificate name, hostnames argument, subjectAltName>>.
StepsSince(from) ==
  LET tail == SubSeq(log, from + 1, Len(log))
      engine == SelectSeq(tail, LAMBDA e : e.t = "engine")
  IN [i \in DOMAIN engine |->
        <<engine[i].what, engine[i].info.certPath, engine[i].hostnames,
          engine[i].san>>]

RootSteps == << <<"selfsign", RootCrt, NoHosts, <<>> >> >>
IntSteps ==
  << <<"req", IntCrt, NoHosts, <<>> >>, <<"sign", IntCrt, NoHosts, <<>> >> >>
LeafSteps(hl) ==
  << <<"req", join("certDir", hl[1], "crt"), Hosts(hl), <<>> >>,
     <<"sign", join("certDir", hl[1], "crt"), Hosts(hl),
       [i \in DOMAIN hl |-> <<"DNS:">> \o hl[i]]>> >>

\* What the claim expects of an issueSslCert call that found the store as
\* snap records it.
C3_Expected ==
  LET intPresent == snap.fs[IntKey] # 0 /\ snap.fs[IntCrt] # 0
      rootLoadable ==
        \/ snap.rootCAInfo # NoInfo
        \/ /\ persistent
           /\ snap.fs[persistentRootCAKeyPath] # 0
           /\ snap.fs[RootCrt] # 0
  IN CASE intPresent -> LeafSteps(snap.hostnames)
       [] ~intPresent /\ rootLoadable ->
            IntSteps \o LeafSteps(snap.hostnames)
       [] OTHER -> RootSteps \o IntSteps \o LeafSteps(snap.hostnames)

IsPrefix(a, b) == Len(a) <= Len(b) /\ a = SubSeq(b, 1, Len(a))

\* An issueSslCert call in which every prompt so far was confirmed and
\* every engine invocation so far succeeded.
C3_Case ==
  /\ snap.fn = "issueSslCert"
  /\ \A i \in DOMAIN log : i > snap.logLen => log[i].ok

C3_Returned ==
  /\ Len(rets) = calls
  /\ calls > 0
  /\ rets[calls].fn = "issueSslCert"

\* C3: such a call runs exactly the missing creation steps in the order
\* root, intermediate, leaf; it does not end the process; and once it has
\* returned, all of them ran, the leaf named after the first hostname and
\* issued for the full hostname list.
C3_CascadeOrder ==
  C3_Case =>
    /\ IsPrefix(StepsSince(snap.logLen), C3_Expected)
    /\ (ssl.active => exitCode = -1)
    /\ (C3_Returned =>
          /\ StepsSince(snap.logLen) = C3_Expected
          /\ rets[calls].value =
               CertInfo(join("certDir", snap.hostnames[1], "crt"),
                        join("certDir", snap.hostnames[1], "key"), ""))

\* C3 witness: a full root, intermediate, leaf cascade for two hostnames
\* has returned.
C3_Witness ==
  /\ C3_Case
  /\ C3_Returned
  /\ Len(snap.hostnames) = 2
  /\ Len(StepsSince(snap.logLen)) = 5

\* C4 (as claimed): whenever issueSslCert starts the leaf issuance, the
\* issuer it passes is a non-null descriptor whose key and certificate
\* files are both on disk.
C4_LeafHasIssuer ==
  (Issuing /\ cur.ret = "ssl_done") =>
    /\ cur.issuer # NoInfo
    /\ fs[cur.issuer.keyPath] # 0
    /\ fs[cur.issuer.certPath] # 0

\* The root descriptor was set by a createRootCA of this run whose engine
\* invocation succeeded.
RootCreatedInRun(d) ==
  \E i \in EngineEvents :
    log[i].what = "selfsign" /\ log[i].ok /\ log[i].info = d

\* The root descriptor was loaded by this issueSslCert call's probe, which
\* found both files.
RootLoadedByProbe(d) ==
  /\ persistent
  /\ d = CertInfo(RootCrt, persistentRootCAKeyPath, "")
  /\ snap.fs[d.keyPath] # 0
  /\ snap.fs[d.certPath] # 0

\* C5: while issueSslCert issues the intermediate, the issuer is a root
\* descriptor that was loaded with both files readable or set by a
\* successful createRootCA of this run, and both its files are on disk.
C5_IntermediateHasRoot ==
  (Issuing /\ cur.ret = "ssl_leaf") =>
    /\ cur.issuer # NoInfo
    /\ RootCreatedInRun(cur.issuer) \/ RootLoadedByProbe(cur.issuer)
    /\ fs[cur.issuer.keyPath] # 0
    /\ fs[cur.issuer.certPath] # 0

\* C5 witness: the intermediate is being signed with a root loaded from
\* disk.
C5_Witness ==
  /\ cur.ret = "ssl_leaf"
  /\ pc = "isc_sign"
  /\ RootLoadedByProbe(cur.issuer)
  /\ ~RootCreatedInRun(cur.issuer)

\* C6: a failed engine invocation is the last thing the process does
\* before it exits with a non-zero status: nothing is asked or invoked
\* after it.
C6_EngineFailureFatal ==
  \A i \in EngineEvents :
    ~log[i].ok =>
      /\ i = Len(log)
      /\ pc \in {"exiting", "exited"}
      /\ exitCode > 0

\* C6 witness: the signing-request generation of a cascade's intermediate
\* failed and the process has exited.
C6_Witness ==
  /\ pc = "exited"
  /\ \E i \in EngineEvents :
       ~log[i].ok /\ log[i].what = "req" /\ log[i].ret = "ssl_leaf"

\* Some engine invocation creating the certificate at path p failed.
CreationFailed(p) ==
  \E i \in EngineEvents : log[i].info.certPath = p /\ ~log[i].ok

\* The certificate at path p was created by engine invocations that all
\* succeeded, the last of them writing the certificate.
CreatedOk(p) ==
  /\ ~CreationFailed(p)
  /\ \E i \in EngineEvents :
       /\ log[i].info.certPath = p
       /\ log[i].what \in {"selfsign", "sign"}
       /\ log[i].ok

\* C7 (as claimed): no certificate whose creation failed is in #newCAs, and
\* every path of the report printed at exit belongs to a certificate whose
\* creation succeeded in this run.
C7_NoFailedCAReported ==
  /\ \A k \in DOMAIN newCAs : ~CreationFailed(newCAs[k])
  /\ \A k \in DOMAIN report : CreatedOk(report[k])

----------------------------------------------------------------------------
(* Properties of validateSslCert, checked under SpecV *)

\* A validateSslCert call is under way or has settled.
Validating == vpc # "off"

\* The engine invocations made so far are the first n of the fixed order.
Performed(n) == vlog = SubSeq(ValidationOrder, 1, n)

\* The certificate carries the name h as its Common Name or as a DNS entry.
CertHas(h) ==
  \/ vcert.cn # <<>> /\ vcert.cn = h
  \/ \E i \in DOMAIN vcert.san : vcert.san[i] = h

\* The requested hostnames the certificate does not carry, in request order.
Absent == SelectSeq(vhosts, LAMBDA h : ~CertHas(h))

\* The check that rejected, by its position in the fixed order.
FailedAt ==
  CASE verr.kind = "EngineInvocationError" ->
         CHOOSE i \in DOMAIN ValidationOrder : ValidationOrder[i] = verr.cmd
    [] verr.kind \in {"ParseError", "ExpiredCertificateError"} -> 4
    [] verr.kind \in {"NoCommonName", "MissingHostnamesError"} -> 6
    [] verr.kind = "KeyMismatchError" -> 8
    [] OTHER -> 0

\* The rejection is a failure of the check it names, at the time it ran.
FailureIsReal ==
  CASE verr.kind = "EngineInvocationError" ->
         CASE verr.cmd = "checkend" -> ~Checkend(vcert, now)
           [] verr.cmd = "rsacheck" -> ~RsaCheck(vkey)
           [] verr.cmd = "verify" -> ~Verify(vcert, now)
           [] verr.cmd = "modkey" -> ~vkey.valid
           [] OTHER -> ~vcert.present
    [] verr.kind = "ExpiredCertificateError" -> vcert.notAfter <= now
    [] verr.kind = "NoCommonName" -> vcert.cn = <<>>
    [] verr.kind = "MissingHostnamesError" -> Absent # <<>>
    [] verr.kind = "KeyMismatchError" -> vcert.modulus # vkey.modulus
    [] OTHER -> FALSE

\* C8: validateSslCert invokes the engine in the fixed order expiry check,
\* key integrity check, trust-chain check, expiration window, name coverage
\* (subject, then subjectAltName), key/certificate pairing (certificate
\* modulus, then key modulus); it resolves only after all of them, and when a
\* check fails it rejects with that check's failure and the invocations made
\* are exactly those up to the failing check: none is made after it.
C8_FixedOrderFailFast ==
  Validating =>
    /\ IsPrefix(vlog, ValidationOrder)
    /\ vpc = "resolved" => Performed(Len(ValidationOrder)) /\ verr = NoError
    /\ vpc = "rejected" =>
         /\ FailedAt > 0
         /\ Performed(FailedAt)
         /\ FailureIsReal
    /\ vpc \notin {"resolved", "rejected"} =>
         /\ verr = NoError
         /\ vpc = ValidationOrder[Len(vlog) + 1]

\* The trust-chain check fails on an unexpired, untrusted certificate with a
\* sound key: three invocations are made and no more.
C8_Witness ==
  /\ vpc = "rejected"
  /\ verr.kind = "EngineInvocationError"
  /\ verr.cmd = "verify"
  /\ ~vcert.trusted
  /\ Len(vlog) = 3

\* The name coverage check has run: the earlier checks passed and the
\* subject and subjectAltName invocations were made.
NameCoverageRan == Validating /\ Len(vlog) >= 6

NameCoverageFailed == vpc = "rejected" /\ Len(vlog) = 6

\* C9 as stated: when the earlier checks pass, the name coverage check fails
\* if and only if some requested hostname is absent from the certificate's
\* Common Name and DNS entries, and the failure lists exactly the absent
\* requested hostnames.
C9_Original ==
  NameCoverageRan =>
    /\ NameCoverageFailed <=> Absent # <<>>
    /\ NameCoverageFailed =>
         verr.kind = "MissingHostnamesError" /\ verr.missing = Absent

\* C9: when the earlier checks pass and the certificate's subject carries a
\* Common Name, the name coverage check fails if and only if some requested
\* hostname is absent from the Common Name and the DNS entries, and the
\* failure lists exactly the absent requested hostnames; a certificate whose
\* subject carries no Common Name fails the check whatever its DNS entries
\* cover, with the failure "Could not find common name".
C9_NameCoverage ==
  NameCoverageRan =>
    IF vcert.cn # <<>>
      THEN /\ NameCoverageFailed <=> Absent # <<>>
           /\ NameCoverageFailed =>
                verr.kind = "MissingHostnamesError" /\ verr.missing = Absent
      ELSE NameCoverageFailed /\ verr.kind = "NoCommonName"

\* A certificate for a.test and b.test validated against a.test and
\* missing.test is rejected, listing exactly missing.test.
C9_Witness ==
  /\ NameCoverageFailed
  /\ vcert.cn = A
  /\ vcert.san = <<A, B>>
  /\ vhosts = <<A, M>>
  /\ verr.kind = "MissingHostnamesError"
  /\ verr.missing = <<M>>

\* The certificate's not-after date is earlier than the time of the call.
ExpiredAtCall == vcert.present /\ vcert.notAfter < vstart

\* C10: validating a certificate whose not-after date is earlier than the
\* current time never resolves, and when it rejects, it rejects with the
\* dedicated expired-certificate failure and no other kind.
C10_ExpiredFailsAsExpired ==
  (Validating /\ ExpiredAtCall) =>
    /\ vpc # "resolved"
    /\ vpc = "rejected" => verr.kind = "ExpiredCertificateError"

\* The step in which validateSslCert reads the not-after date and compares
\* it with the clock.
DateCompared == vpc = "enddate" /\ vlog' # vlog

\* C11: when validateSslCert compares the not-after date of a certificate
\* that is not yet expired with the clock, it does not fail, and it emits
\* the near-expiry warning if and only if less than 14 days remain; the
\* warning is emitted by no other step.
C11_NearExpiryWarning ==
  [][/\ (DateCompared /\ vcert.present /\ vcert.notAfter > now) =>
          /\ vpc' = "subject"
          /\ verr' = NoError
          /\ vwarn' <=> (vcert.notAfter - now < 14)
     /\ ~DateCompared => vwarn' = vwarn]_vars

\* A certificate expiring in 10 days passes validation with a warning.
C11_Witness ==
  /\ vpc = "resolved"
  /\ vcert.notAfter = vstart + 10
  /\ now = vstart
  /\ vwarn

\* Both modulus invocations were made and succeeded: the earlier checks
\* passed and the two moduli were extracted.
ModuliExtracted == Validating /\ Len(vlog) = 8 /\ vcert.present /\ vkey.valid

\* C12: once the modulus of the certificate and the modulus of the private
\* key are extracted, validateSslCert fails with KeyMismatchError if and only
\* if they differ; it never resolves for a certificate paired with a key of
\* another modulus.
C12_KeyMismatch ==
  /\ ModuliExtracted =>
       ((vpc = "rejected" /\ verr.kind = "KeyMismatchError")
          <=> vcert.modulus # vkey.modulus)
  /\ vpc = "resolved" => vcert.modulus = vkey.modulus

\* A certificate that passed every earlier check is rejected for its
\* unrelated, structurally sound key.
C12_Witness ==
  /\ vpc = "rejected"
  /\ verr.kind = "KeyMismatchError"
  /\ vkey.valid
  /\ vcert.modulus = 1
  /\ vkey.modulus = 2

----------------------------------------------------------------------------
(* Properties of issuing and then validating, checked under SpecChain *)

\* The file at path p was written by a successful engine invocation of this
\* run, of the given kind.
IssuedInRun(p, what) ==
  /\ p \in Paths
  /\ fs[p] >= 2
  /\ WrittenBy(p).what = what
  /\ WrittenBy(p).ok

\* validateSslCert settled on a leaf whose whole chain this run created:
\* createRootCA, then issueSignedCert for the intermediate with that root as
\* issuer, then issueSignedCert for the leaf with that intermediate as issuer
\* and the hostnames now validated.
ChainIssuedInRun ==
  /\ vpc \in {"resolved", "rejected"}
  /\ LET leaf == rets[Len(rets)].value
     IN /\ IssuedInRun(leaf.certPath, "sign")
        /\ WrittenBy(leaf.certPath).hostnames = Hosts(vhosts)
        /\ LET int == WrittenBy(leaf.certPath).issuer
           IN /\ IssuedInRun(int.certPath, "sign")
              /\ WrittenBy(int.certPath).name = intermediateName
              /\ IssuedInRun(WrittenBy(int.certPath).issuer.certPath,
                             "selfsign")

\* C13 (as claimed): a leaf issued by createRootCA, issueSignedCert for the
\* intermediate and issueSignedCert for the leaf passes validateSslCert for
\* the hostnames it was issued for.
C13_RoundTripValidates == ChainIssuedInRun => vpc = "resolved"

----------------------------------------------------------------------------
(* Properties of CertInfo.getDetails, checked under SpecInfo *)

CallsOn(d) == {k \in DOMAIN dcalls : dcalls[k].on = d}

\* C14 (as claimed): on each descriptor the engine is invoked at most once,
\* and once its invocation has returned the text dump every getDetails call
\* made on the descriptor, overlapping ones included, has resolved to that
\* text.
C14_CachedOnce ==
  \A d \in Descriptors :
    /\ spawned[d] <= 1
    /\ hydrate[d] = "ok" =>
         \A k \in CallsOn(d) :
           dcalls[k].state = "resolved" /\ dcalls[k].value = "text"

\* C15 (as claimed): on a descriptor whose engine invocation fails, the call
\* that started it and every call made after the failure reject with
\* EngineInvocationError once settled.
C15_FailsEveryCall ==
  \A d \in Descriptors :
    hydrate[d] = "failed" =>
      \A k \in CallsOn(d) :
        dcalls[k].at \in {"idle", "failed"} =>
          /\ dcalls[k].state = "rejected"
          /\ dcalls[k].value = "EngineInvocationError"

----------------------------------------------------------------------------
(* Properties of the workspace directory, checked under SpecTemp *)

Settled == {i \in DOMAIN reqs : reqs[i].state = "done"}

\* C16: for one builder at most one workspace directory is ever created;
\* once any request has resolved exactly one exists, and every request,
\* create's own and those of overlapping later operations, resolved to that
\* directory or to the shared config path inside it.
C16_WorkspaceOnce ==
  /\ mkdtemps <= 1
  /\ \A i \in Settled :
       /\ mkdtemps = 1
       /\ reqs[i].dir = 1
       /\ tmp = 1
       /\ Resolved(reqs[i]) \in {<<1>>, <<1, "shared.conf">>}

\* After create, three operations asked for the directory and the config
\* path and all were answered.
C16_Witness ==
  /\ Settled = DOMAIN reqs
  /\ \E i, j \in Settled :
       /\ reqs[i].site = "createRootCA:300"
       /\ reqs[j].site = "issueSignedCert:434"

----------------------------------------------------------------------------
(* Properties of the workspace at exit, checked under Spec *)

\* The exit handler ran and the workspace directory is not on disk: it was
\* deleted.
ExitedClean == pc = "exited" /\ handler /\ ~tempExists

\* C17: once the process has exited through the exit handler and deletion
\* succeeded, no file of the workspace directory is left; and with no
\* persistent root key path, every root key was written inside the workspace
\* and none into the store directory, at any time.
C17_WorkspaceGone ==
  /\ ExitedClean => \A p \in TempFiles : fs[p] = 0
  /\ (pc # "off" /\ ~persistent) =>
       /\ fs[StoreRootKey] = 0
       /\ \A i \in EngineEvents :
            log[i].what = "selfsign" =>
              /\ log[i].info.keyPath = TempRootKey
              /\ log[i].info.keyPath \in TempFiles
       /\ ExitedClean => fs[RootKeyPath] = 0

\* A run that created a root CA with a temporary key and then failed
\* fatally: after the exit handler the key is gone.
C17_Witness ==
  /\ ExitedClean
  /\ ~persistent
  /\ exitCode = 1
  /\ \E i \in EngineEvents : log[i].what = "selfsign" /\ log[i].ok
  /\ fs[TempRootKey] = 0
  /\ fs[RootCrt] >= 2

\* The exit handler ran and could not delete the workspace directory.
DeletionFailed == pc = "exited" /\ handler /\ tempDir /\ tempExists

\* C18 as stated: when deletion of the workspace fails at exit, the process
\* exits non-zero if and only if no persistent root key path was configured
\* and a root CA is held; in every other case the report is printed.
C18_Original ==
  DeletionFailed =>
    /\ exitCode # 0 <=> (~persistent /\ rootCAInfo # NoInfo)
    /\ ~(~persistent /\ rootCAInfo # NoInfo) => report = newCAs

\* C18: when deletion of the workspace fails at exit, the failure forces exit
\* status 1, with no report printed, if and only if no persistent root key
\* path was configured and a root CA is held; in every other case the
\* process keeps the status it was already exiting with (non-zero after a
\* fatal exit) and the new-CAs report is printed.
C18_CleanupFailure ==
  [][(pc = "exiting" /\ DeletionFailed') =>
       IF ~persistent /\ rootCAInfo # NoInfo
         THEN exitCode' = 1 /\ report' = <<>>
         ELSE exitCode' = exitCode /\ report' = newCAs]_vars

\* A run that created a root CA with a temporary key and completed: the
\* failed deletion turned its exit status to 1 and no report was printed.
C18_Witness ==
  /\ DeletionFailed
  /\ cur = NoFrame
  /\ ~persistent
  /\ rootCAInfo # NoInfo
  /\ newCAs # <<>>
  /\ exitCode = 1
  /\ report = <<>>

----------------------------------------------------------------------------
(* Properties of the engine invocations' arguments, checked under Spec *)

\* The password an engine invocation needs: the new root's for the
\* self-signing invocation, the issuer's for the others ("" when none).
PasswordOf(e) ==
  IF e.what = "selfsign" THEN e.info.password ELSE e.issuer.password

\* The text appears in some argument of the list.
InArgs(text, args) ==
  \E k \in DOMAIN args : \E j \in DOMAIN args[k] : args[k][j] = text

\* C19: in every engine invocation of createRootCA and issueSignedCert the
\* root or issuer password appears in no argument; the self-signing and the
\* signing invocation write it, and nothing else, to the input channel and
\* then close the channel, and the signing-request invocation is given no
\* input at all.
C19_PasswordNotInArgs ==
  \A i \in EngineEvents :
    LET e == log[i]
        pw == PasswordOf(e)
    IN IF pw = ""
         THEN StdinOf(e).written = <<>>
         ELSE /\ ~InArgs(pw, ArgsOf(e))
              /\ IF e.what = "req"
                   THEN StdinOf(e).written = <<>>
                   ELSE StdinOf(e) = [written |-> <<pw>>, ended |-> TRUE]

\* The intermediate was signed with the password-protected key of a root
\* created in this run.
C19_Witness ==
  \E i \in EngineEvents :
    /\ log[i].what = "sign"
    /\ log[i].ok
    /\ log[i].issuer.password = "pw"
    /\ InArgs("-passin", ArgsOf(log[i]))
    /\ \E j \in EngineEvents : j < i /\ log[j].what = "selfsign" /\ log[j].ok

\* The engine invocations of issueSignedCert calls that were given a
\* hostnames argument.
WithHostnames ==
  {i \in EngineEvents :
     log[i].fn = "issueSignedCert" /\ log[i].hostnames.given}

\* C20 (as claimed): whenever issueSignedCert is given a hostnames argument,
\* an empty list included, nothing is added to the new-CAs report for it,
\* and the certificate is signed with the leaf extensions and one DNS entry
\* per hostname.
C20_HostnamesMeanLeaf ==
  \A i \in WithHostnames :
    LET e == log[i]
    IN /\ \A k \in DOMAIN newCAs : newCAs[k] # e.info.certPath
       /\ e.what = "sign" =>
            /\ e.san = subjAltName(e.hostnames)
            /\ \E k \in DOMAIN ArgsOf(e) : ArgsOf(e)[k] = PathArg(SslExt)

----------------------------------------------------------------------------
(* Properties of leaf issuances of one run, checked under SpecPar *)

\* C21 (as claimed): leaf issuance never modifies the shared config file,
\* and whether the issueSignedCert calls of a run are made one after the
\* other or overlap, every certificate issued is signed from the request of
\* its own call and carries exactly the DNS entries of its own hostname
\* list.
C21_NoCrossContamination ==
  /\ work["shared.conf"] = WorkAfterCreate["shared.conf"]
  /\ \A i \in Issuers :
       ipc[i] = "done" =>
         /\ issued[i].request = [by |-> i, text |-> subj(org, icall[i].name)]
         /\ issued[i].dns = icall[i].hostnames

----------------------------------------------------------------------------
(* Properties of the policies, checked under SpecPolicy *)

\* The invocations of one kind among those just built.
Built(what) == {k \in DOMAIN built : built[k].what = what}

\* C22 (as claimed): for every configured policy the subject of the signing
\* request issueSignedCert builds is /C=<country>/O=<org>/CN=<name>, with
\* the policy's country code and organization name and the requested name.
C22_SubjectFollowsPolicy ==
  \A k \in Built("req") :
    built[k].subj =
      <<"/C=">> \o options.countryName \o <<"/O=">> \o options.org
        \o <<"/CN=">> \o built[k].name

\* C23: for every policy, the extensions the root is self-signed with and
\* the extensions a leaf is signed with hold no name constraint, and the
\* extensions of every CA-link signing (issueSignedCert without hostnames)
\* hold the critical name constraint permitting only the suffix .test.
C23_ConstraintOnIntermediateOnly ==
  /\ \A k \in Built("selfsign") :
       "nameConstraints" \notin DOMAIN ExtensionSet(built[k])
  /\ \A k \in Built("sign") :
       IF built[k].hostnames.given /\ built[k].hostnames.list # <<>>
         THEN "nameConstraints" \notin DOMAIN ExtensionSet(built[k])
         ELSE /\ "nameConstraints" \in DOMAIN ExtensionSet(built[k])
              /\ ExtensionSet(built[k]).nameConstraints =
                   <<"critical,permitted;DNS:.test">>

\* A non-default policy signed an intermediate: the name constraint is in.
C23_Witness ==
  /\ options.org = <<"Globex">>
  /\ options.countryName = <<"DE">>
  /\ \E k \in Built("sign") :
       /\ ~built[k].hostnames.given
       /\ "nameConstraints" \in DOMAIN ExtensionSet(built[k])

----------------------------------------------------------------------------
(* Properties of create() and the constructor, checked under SpecCreate *)

\* C24 (as claimed): in every reachable state, after a failed create()
\* included, a direct constructor call throws and yields no instance: every
\* instance a caller holds was returned by create().
C24_OnlyThroughCreate ==
  \A k \in DOMAIN instances : instances[k] = "create"

\* The place of statement s among the statements a create() call completed,
\* 0 when it did not complete it.
DoneAt(c, s) ==
  IF \E n \in DOMAIN c.done : c.done[n] = s
    THEN CHOOSE n \in DOMAIN c.done : c.done[n] = s
    ELSE 0

\* The engine check is the first statement a create() call completes or
\* throws at.
EngineCheckedFirst(c) ==
  IF c.done = <<>> THEN c.threwAt = "execSync" ELSE c.done[1] = "execSync"

\* C30: create() checks engine availability before anything else: if the
\* engine is unavailable it throws without creating the store directory,
\* the workspace or an instance and without registering an exit handler;
\* when it returns a builder, the store directory exists and the shared
\* config file has already been written inside the workspace.
C30_EngineCheckedFirst ==
  \A k \in DOMAIN creates :
    LET c == creates[k]
    IN /\ EngineCheckedFirst(c)
       /\ ~c.engine =>
            /\ c.threwAt = "execSync"
            /\ c.done = <<>>
            /\ c.post = c.pre
       /\ c.threwAt = "nowhere" =>
            /\ c.post[3]
            /\ c.post[1] = c.pre[1] + 1
            /\ c.post[4] > c.pre[4]
            /\ c.post[5] > c.pre[5]
            /\ 0 < DoneAt(c, "getConfFile")
            /\ DoneAt(c, "getConfFile") < DoneAt(c, "writeConfFile")

\* One create() call found no engine where no store directory existed, and
\* another one returned a builder.
C30_Witness ==
  \E j, k \in DOMAIN creates :
    /\ ~creates[j].engine
    /\ ~creates[j].pre[3]
    /\ creates[j].threwAt = "execSync"
    /\ creates[k].threwAt = "nowhere"
    /\ creates[k].post[3]

----------------------------------------------------------------------------
(* Properties of the issueSslCert cascade, checked under Spec *)

\* The overwrite confirmations for the intermediate that the operator
\* declined during an issueSslCert cascade.
DeclinedIntermediate ==
  {i \in ConfirmEvents :
     /\ log[i].what = "overwrite"
     /\ ~log[i].ok
     /\ log[i].ret = "ssl_leaf"}

\* C25 (as claimed): when the operator declines the overwrite confirmation
\* for the intermediate during an issueSslCert cascade, the run ends as a
\* fatal process exit (the process does not exit with status 0), and no
\* engine invocation (which would write a leaf key, a leaf signing request
\* or a leaf certificate) follows the refusal.
C25_DeclinedIntermediateFatal ==
  \A i \in DeclinedIntermediate :
    /\ pc = "exited" => exitCode # 0
    /\ \A j \in EngineEvents : j < i

\* The CA level an engine invocation of a cascade creates: the root
\* certificate for createRootCA, the intermediate certificate for the
\* issueSignedCert that follows it.
LevelOf(e) == IF e.fn = "createRootCA" THEN RootCrt ELSE IntCrt

\* The event a step adds to the log.
Logged == log'[Len(log')]

\* C26: in an issueSslCert cascade every engine invocation that creates a CA
\* level (root or intermediate) comes after a create confirmation for that
\* level, asked in this cascade and answered yes, whether safe mode is on or
\* off; the empty answer counts as yes; and when the operator declines a
\* create confirmation the process exits with a non-zero status and nothing
\* more is asked or invoked.
C26_CreateConfirmations ==
  [][/\ confirm(<<>>, TRUE)
     /\ (log' # log /\ Logged.t = "engine"
           /\ Logged.ret \in {"ssl_int_confirm", "ssl_leaf"}) =>
          \E i \in ConfirmEvents :
            /\ i > snap.logLen
            /\ log[i].what = "create"
            /\ log[i].paths = {LevelOf(Logged)}
            /\ log[i].ok
     /\ (log' # log /\ Logged.t = "confirm" /\ Logged.what = "create"
           /\ ~Logged.ok) =>
          pc' = "exiting" /\ exitCode' # 0
     /\ (\E i \in ConfirmEvents : log[i].what = "create" /\ ~log[i].ok) =>
          /\ log' = log
          /\ pc' = "exited"
          /\ exitCode' # 0]_vars

\* With safe mode off, a cascade asked for the root, created it, asked for
\* the intermediate and was declined: the process has exited with status 1
\* and nothing was invoked after the refusal.
C26_Witness ==
  /\ ~safeMode
  /\ pc = "exited"
  /\ exitCode = 1
  /\ \E i, j \in ConfirmEvents, k \in EngineEvents :
       /\ i < k /\ k < j
       /\ log[i].what = "create" /\ log[i].paths = {RootCrt} /\ log[i].ok
       /\ log[k].what = "selfsign" /\ log[k].ok
       /\ log[j].what = "create" /\ log[j].paths = {IntCrt} /\ ~log[j].ok
       /\ j = Len(log)

\* The store a completed earlier run leaves behind: the root certificate and
\* the intermediate's key and certificate.
CompletedStore(f) == f[RootCrt] # 0 /\ f[IntKey] # 0 /\ f[IntCrt] # 0

\* The first call of this process run is an issueSslCert on such a store.
RerunOnCompletedStore ==
  calls = 1 /\ snap.fn = "issueSslCert" /\ CompletedStore(snap.fs)

\* C27: a new process run of issueSslCert on a store where an earlier run
\* completed asks no create confirmation, invokes the engine only for the
\* leaf (named after the first hostname, issued by the intermediate found
\* on disk), holds no root CA, and adds nothing to the new-CAs report.
C27_RerunOnlyIssuesLeaf ==
  [][RerunOnCompletedStore =>
       /\ (log' # log) =>
            /\ ~(Logged.t = "confirm" /\ Logged.what = "create")
            /\ Logged.fn = "issueSignedCert"
            /\ Logged.name = LeafName(snap.hostnames)
            /\ Logged.issuer = CertInfo(IntCrt, IntKey, "")
       /\ rootCAInfo' = NoInfo
       /\ newCAs' = <<>>
       /\ report' = <<>>]_vars

\* Such a run issued its leaf and exited with status 0 and an empty report.
C27_Witness ==
  /\ RerunOnCompletedStore
  /\ pc = "exited"
  /\ exitCode = 0
  /\ report = <<>>
  /\ \E k \in EngineEvents :
       /\ log[k].what = "sign"
       /\ log[k].ok
       /\ log[k].name = LeafName(snap.hostnames)

\* The signing invocations by which issueSslCert signs a missing
\* intermediate with a password-encrypted root key.
IntermediateSignings ==
  {k \in EngineEvents :
     /\ log[k].what = "sign"
     /\ log[k].ret = "ssl_leaf"
     /\ Encrypted(log[k].issuer.keyPath)}

\* C28 (as claimed): whenever issueSslCert signs a missing intermediate with
\* a password-encrypted root key, a password is written to the signing
\* invocation's input channel and the channel is closed, both for a root
\* created in this run and for a persistent root loaded from disk.
C28_RootPasswordStreamed ==
  \A k \in IntermediateSignings :
    /\ StdinOf(log[k]).ended
    /\ StdinOf(log[k]).written # <<>>
    /\ StdinOf(log[k]).written # <<"">>
    /\ InArgs("-passin", ArgsOf(log[k]))

----------------------------------------------------------------------------
(* Properties of spawnAsync's promise, checked under SpecSpawn *)

\* The engine process has closed or could not be started.
Ended == child.state \in {"failed", "closed"}

\* The output the process wrote, as the copy of spawnAsync that was called
\* hands it over.
CapturedOutput ==
  IF child.impl = "part_001"
    THEN [is |-> "object", stdout |-> Text(child.out),
          stderr |-> Text(child.err)]
    ELSE IF child.piped THEN Text(child.out) ELSE Null

\* The error names the invoked command with its arguments and the exit code.
CarriesCommandAndCode(e, code) ==
  /\ e.is = "Error"
  /\ Len(e.message) = 6
  /\ e.message[2] = child.command
  /\ e.message[4] = quoted(child.args)
  /\ e.message[6] = code

\* What holds of every invocation, whichever way it ends: the promise
\* settles once, not before the process has ended, and resolves with the
\* captured output exactly when the process closed with exit status 0.
SettlesOnceAtEnd ==
  child.state # "none" =>
    /\ settled <= 1
    /\ (promise.state # "pending") = Ended
    /\ Ended => settled = 1
    /\ child.state = "closed" =>
         (promise.state = "resolved") = (child.code = 0)
    /\ promise.state = "resolved" =>
         child.state = "closed" /\ promise.value = CapturedOutput

\* C29 as stated: the promise of an engine invocation settles exactly once
\* and never before the process has closed or failed to start; it resolves
\* with the captured output if and only if the process closed with exit
\* status 0, and otherwise rejects with an error that carries the invoked
\* command and the exit code; a spawn error followed by a close event does
\* not settle it a second time.
C29_Original ==
  /\ SettlesOnceAtEnd
  /\ (child.state # "none" /\ promise.state = "rejected") =>
       CarriesCommandAndCode(promise.value, child.code)

\* C29 as amended: the same, except that the error carrying the invoked
\* command and the exit code is the rejection of a process that closed with
\* a non-zero status without a spawn error; after a spawn error the promise
\* is rejected with the runtime's spawn error itself, and the close event
\* that follows changes nothing.
C29_SettlesOnce ==
  /\ SettlesOnceAtEnd
  /\ (child.state # "none" /\ promise.state = "rejected") =>
       IF child.errored
         THEN \E code \in FailCodes :
                promise.value = spawnError(child.command, code)
         ELSE CarriesCommandAndCode(promise.value, child.code)

\* An invocation that could not be started has been closed after its
\* spawn error, and the promise still holds the spawn error.
C29_Witness ==
  /\ child.state = "closed"
  /\ child.errored
  /\ settled = 1
  /\ promise.state = "rejected"
  /\ promise.value = spawnError(child.command, child.code)

====
